---- MODULE Spec2Model ----
(***************************************************************************)
(* Model of the credtech SCR pipeline: the bronze->silver row cleaner,     *)
(* the silver->gold segment aggregator with its KPI recalculation, the    *)
(* gold->PostgreSQL loader and the k-means clustering stage.               *)
(*                                                                         *)
(* Text fields are sequences of one-character strings.  Money amounts are  *)
(* integers in hundredths; ratios are exact reduced fractions <<n, d>>     *)
(* with d > 0 (the floats of the code without their rounding).             *)
(***************************************************************************)
EXTENDS Integers, Sequences, FiniteSets, TLC

(***************************************************************************)
(* Bounds of the model.                                                    *)
(***************************************************************************)
MaxRows == 2
MaxCargas == 2
MaxExecucoes == 2
MaxLotes == 2

(***************************************************************************)
(* Nullable values.  A float column holds NaN or a number <<v>>; a         *)
(* timestamp column holds NaT or <<yyyymm, day, hour>>.                    *)
(***************************************************************************)
NaN == <<>>
NaT == <<>>
Num(v) == <<v>>

(***************************************************************************)
(* Exact fractions.                                                        *)
(***************************************************************************)
Abs(x) == IF x < 0 THEN -x ELSE x

RECURSIVE GCD(_, _)
GCD(a, b) == IF b = 0 THEN a ELSE GCD(b, a % b)

Frac(n, d) ==
    LET g == GCD(Abs(n), Abs(d))
        s == IF d < 0 THEN -1 ELSE 1
    IN  <<(s * n) \div g, (s * d) \div g>>

Zero == <<0, 1>>
One == <<1, 1>>

FracAdd(p, q) == Frac(p[1] * q[2] + q[1] * p[2], p[2] * q[2])
FracLess(p, q) == p[1] * q[2] < q[1] * p[2]
FracLeq(p, q) == p[1] * q[2] <= q[1] * p[2]

(***************************************************************************)
(* Characters in code-point order, for the lexicographic order of text.    *)
(***************************************************************************)
Alphabet ==
    <<" ", "+", ",", "-", ".", "0", "1", "2", "3", "4", "5", "6", "7", "8",
      "9", ":", "<", "=", "A", "B", "C", "D", "E", "F", "G", "H", "I", "J", "K",
      "L", "M", "N", "O", "P", "Q", "R", "S", "T", "U", "V", "W", "X", "Y",
      "Z", "a", "n">>

CodePoints ==
    [c \in {Alphabet[i] : i \in 1..Len(Alphabet)} |->
        CHOOSE i \in 1..Len(Alphabet) : Alphabet[i] = c]

CharCode(c) == CodePoints[c]

Digits == {"0", "1", "2", "3", "4", "5", "6", "7", "8", "9"}

DigitVal(c) == CharCode(c) - CharCode("0")

RECURSIVE TextLess(_, _)
TextLess(s, t) ==
    IF t = <<>> THEN FALSE
    ELSE IF s = <<>> THEN TRUE
    ELSE IF Head(s) # Head(t) THEN CharCode(Head(s)) < CharCode(Head(t))
    ELSE TextLess(Tail(s), Tail(t))

(***************************************************************************)
(* str.strip(): leading and trailing blanks removed.                       *)
(***************************************************************************)
RECURSIVE LStrip(_)
LStrip(s) == IF s # <<>> /\ Head(s) = " " THEN LStrip(Tail(s)) ELSE s

RECURSIVE RStrip(_)
RStrip(s) ==
    IF s # <<>> /\ s[Len(s)] = " " THEN RStrip(SubSeq(s, 1, Len(s) - 1)) ELSE s

Strip(s) == RStrip(LStrip(s))

(***************************************************************************)
(* str.replace(old, new, regex=False) on a text.                           *)
(***************************************************************************)
StartsWith(s, p) == Len(s) >= Len(p) /\ SubSeq(s, 1, Len(p)) = p

RECURSIVE Replace(_, _, _)
Replace(s, old, new) ==
    IF s = <<>> THEN <<>>
    ELSE IF StartsWith(s, old)
         THEN new \o Replace(SubSeq(s, Len(old) + 1, Len(s)), old, new)
         ELSE <<Head(s)>> \o Replace(Tail(s), old, new)

(***************************************************************************)
(* pd.to_numeric(text, errors='coerce'): an optional sign, digits with at  *)
(* most one decimal point and at least one digit; anything else (the text  *)
(* 'nan' of a missing field included) is NaN.  The value is returned in    *)
(* hundredths; the inputs of the model carry at most two decimals.         *)
(***************************************************************************)
RECURSIVE DigitsVal(_)
DigitsVal(s) ==
    IF s = <<>> THEN 0 ELSE DigitsVal(SubSeq(s, 1, Len(s) - 1)) * 10 + DigitVal(s[Len(s)])

AllDigits(s) == \A i \in 1..Len(s) : s[i] \in Digits

Unsigned(s) ==
    LET dots == {i \in 1..Len(s) : s[i] = "."}
    IN  IF dots = {}
        THEN IF s # <<>> /\ AllDigits(s) THEN Num(DigitsVal(s) * 100) ELSE NaN
        ELSE IF Cardinality(dots) > 1 THEN NaN
        ELSE LET p == CHOOSE i \in dots : TRUE
                 ip == SubSeq(s, 1, p - 1)
                 fp == SubSeq(s, p + 1, Len(s))
                 f2 == SubSeq(fp \o <<"0", "0">>, 1, 2)
             IN  IF AllDigits(ip) /\ AllDigits(fp) /\ Len(ip) + Len(fp) > 0
                 THEN Num(DigitsVal(ip) * 100 + DigitsVal(f2))
                 ELSE NaN

to_numeric(s) ==
    IF s # <<>> /\ Head(s) = "-"
    THEN LET u == Unsigned(Tail(s)) IN IF u = NaN THEN NaN ELSE Num(-u[1])
    ELSE IF s # <<>> /\ Head(s) = "+" THEN Unsigned(Tail(s))
    ELSE Unsigned(s)

(***************************************************************************)
(* pd.to_datetime(text, errors='coerce') on the texts 'YYYY-MM-DD' and     *)
(* 'YYYY-MM-DD HH:MM'; any other text, or a date that does not exist, is   *)
(* NaT.  A timestamp is <<yyyymm, day, hour * 100 + minute>>.              *)
(***************************************************************************)
DaysIn(y, m) ==
    IF m = 2 THEN (IF y % 4 = 0 THEN 29 ELSE 28)
    ELSE IF m \in {4, 6, 9, 11} THEN 30 ELSE 31

DateOf(s) ==
    IF /\ Len(s) = 10
       /\ s[5] = "-" /\ s[8] = "-"
       /\ AllDigits(SubSeq(s, 1, 4)) /\ AllDigits(SubSeq(s, 6, 7))
       /\ AllDigits(SubSeq(s, 9, 10))
    THEN LET y == DigitsVal(SubSeq(s, 1, 4))
             m == DigitsVal(SubSeq(s, 6, 7))
             d == DigitsVal(SubSeq(s, 9, 10))
         IN  IF m \in 1..12 /\ d \in 1..DaysIn(y, m)
             THEN <<y * 100 + m, d, 0>> ELSE NaT
    ELSE NaT

TimeOf(s) ==
    IF /\ Len(s) = 5 /\ s[3] = ":"
       /\ AllDigits(SubSeq(s, 1, 2)) /\ AllDigits(SubSeq(s, 4, 5))
       /\ DigitsVal(SubSeq(s, 1, 2)) < 24 /\ DigitsVal(SubSeq(s, 4, 5)) < 60
    THEN <<DigitsVal(SubSeq(s, 1, 2)) * 100 + DigitsVal(SubSeq(s, 4, 5))>>
    ELSE <<>>

to_datetime(s) ==
    IF Len(s) = 16 /\ s[11] = " "
    THEN LET d == DateOf(SubSeq(s, 1, 10))
             t == TimeOf(SubSeq(s, 12, 16))
         IN  IF d = NaT \/ t = <<>> THEN NaT ELSE <<d[1], d[2], t[1]>>
    ELSE DateOf(s)

(* .dt.normalize(): the time of day is dropped; NaT stays NaT. *)
normalize(ts) == IF ts = NaT THEN NaT ELSE <<ts[1], ts[2], 0>>

(***************************************************************************)
(* The row cleaner, processar_bronze_to_silver_local, on one raw row.      *)
(* Of the six maturity buckets the model carries a_vencer_ate_90_dias: the *)
(* code cleans all ten value columns with the same loop body.              *)
(***************************************************************************)
colunas_scr_valor_para_limpar ==
    <<"a_vencer_ate_90_dias", "vencido_acima_de_15_dias", "carteira_ativa",
      "carteira_inadimplida_arrastada", "ativo_problematico">>

colunas_scr_categoricas_para_strip ==
    <<"uf", "cliente", "ocupacao", "cnae_secao", "cnae_subclasse", "porte",
      "modalidade">>

(* One pass of the loop over the value columns: thousands separators       *)
(* removed, the decimal comma turned into a period, then to_numeric.       *)
LimparValor(s) == to_numeric(Replace(Replace(s, <<".">>, <<>>), <<",">>, <<".">>))

(* numero_de_operacoes: the sentinel replaced, coerced, NaN filled with 0, *)
(* cast to an integer (truncation toward zero of the hundredths).          *)
LimparOperacoes(s) ==
    LET v == to_numeric(Replace(s, <<"<", "=", " ", "1", "5">>, <<"1", "5">>))
    IN  IF v = NaN THEN 0
        ELSE IF v[1] >= 0 THEN v[1] \div 100 ELSE -((-v[1]) \div 100)

(* The row-level ratio lambda followed by fillna(0): num / den when den is *)
(* a number above 0, else 0; a NaN numerator gives NaN, which is filled.   *)
RowRate_SemGuarda(num, den) ==
    IF den = NaN \/ num = NaN THEN Zero
    ELSE IF den[1] > 0 THEN Frac(num[1], den[1])
    ELSE IF den[1] = 0 /\ num[1] > 0 THEN One ELSE Zero

RowRate(num, den) ==
    IF den # NaN /\ den[1] > 0
    THEN IF num = NaN THEN Zero ELSE Frac(num[1], den[1])
    ELSE Zero

(* NaN + x and x + NaN are NaN (row-level float addition). *)
NanAdd(x, y) == IF x = NaN \/ y = NaN THEN NaN ELSE Num(x[1] + y[1])

LimparLinha(raw) ==
    LET val == [c \in {colunas_scr_valor_para_limpar[i] :
                         i \in 1..Len(colunas_scr_valor_para_limpar)}
                  |-> LimparValor(raw[c])]
    IN  [data_base |-> to_datetime(raw.data_base),
         uf |-> Strip(raw.uf),
         cliente |-> Strip(raw.cliente),
         modalidade |-> Strip(raw.modalidade),
         ocupacao |-> Strip(raw.ocupacao),
         cnae_secao |-> Strip(raw.cnae_secao),
         cnae_subclasse |-> Strip(raw.cnae_subclasse),
         porte |-> Strip(raw.porte),
         numero_de_operacoes |-> LimparOperacoes(raw.numero_de_operacoes),
         a_vencer_ate_90_dias |-> val["a_vencer_ate_90_dias"],
         vencido_acima_de_15_dias |-> val["vencido_acima_de_15_dias"],
         carteira_ativa |-> val["carteira_ativa"],
         carteira_inadimplida_arrastada |-> val["carteira_inadimplida_arrastada"],
         ativo_problematico |-> val["ativo_problematico"],
         taxa_inadimplencia_segmento |->
             RowRate(NanAdd(val["vencido_acima_de_15_dias"],
                            val["carteira_inadimplida_arrastada"]),
                     val["carteira_ativa"]),
         perc_ativo_problematico |->
             RowRate(val["ativo_problematico"], val["carteira_ativa"])]

(***************************************************************************)
(* The segment aggregator, processar_silver_to_gold.                       *)
(***************************************************************************)
colunas_para_agregacao ==
    <<"data_base", "uf", "cliente", "modalidade", "ocupacao", "cnae_secao",
      "cnae_subclasse", "porte">>

(* The grouping key of a row whose data_base has been normalized. *)
ChaveDe(row) == [i \in 1..Len(colunas_para_agregacao) |-> row[colunas_para_agregacao[i]]]

(* groupby(..., dropna=True), the default: a row with a null key column is *)
(* in no group.  The text columns are never null after astype(str).        *)
ChaveNula(k) == k[1] = NaT

(* Order of the group keys in the output (sort=True, the default):         *)
(* lexicographic, the timestamp first, then the text columns.              *)
TsLess(a, b) ==
    \/ a[1] < b[1]
    \/ a[1] = b[1] /\ a[2] < b[2]
    \/ a[1] = b[1] /\ a[2] = b[2] /\ a[3] < b[3]

RECURSIVE ChaveLessFrom(_, _, _)
ChaveLessFrom(a, b, i) ==
    IF i > Len(a) THEN FALSE
    ELSE IF a[i] = b[i] THEN ChaveLessFrom(a, b, i + 1)
    ELSE IF i = 1 THEN TsLess(a[1], b[1]) ELSE TextLess(a[i], b[i])

ChaveLess(a, b) == ChaveLessFrom(a, b, 1)

RECURSIVE SortChaves(_)
SortChaves(S) ==
    IF S = {} THEN <<>>
    ELSE LET k == CHOOSE x \in S : \A y \in S \ {x} : ChaveLess(x, y)
         IN  <<k>> \o SortChaves(S \ {k})

(* 'sum' of a float column: NaN skipped, the empty sum is 0. *)
SumSkipNa_Ultimo(rows, col) ==
    IF rows = <<>> \/ rows[Len(rows)][col] = NaN THEN 0 ELSE rows[Len(rows)][col][1]

RECURSIVE SumSkipNa(_, _)
SumSkipNa(rows, col) ==
    IF rows = <<>> THEN 0
    ELSE (IF Head(rows)[col] = NaN THEN 0 ELSE Head(rows)[col][1])
         + SumSkipNa(Tail(rows), col)

(* 'mean' of a ratio column (never NaN after the cleaner's fillna). *)
RECURSIVE FracSum(_, _)
FracSum(rows, col) ==
    IF rows = <<>> THEN Zero ELSE FracAdd(Head(rows)[col], FracSum(Tail(rows), col))

Mean(rows, col) ==
    LET t == FracSum(rows, col) IN Frac(t[1], t[2] * Len(rows))

(* 'nunique' and 'count' of a column within a group. *)
NUnique_Linhas(rows, col) == Len(rows)

NUnique(rows, col) == Cardinality({rows[i][col] : i \in 1..Len(rows)})
CountNotNull(rows, col) == Cardinality({i \in 1..Len(rows) : rows[i][col] # <<>>})

(* One row of groupby(...).agg(...).reset_index(). *)
AggRow(k, membros) ==
    [data_base |-> k[1], uf |-> k[2], cliente |-> k[3], modalidade |-> k[4],
     ocupacao |-> k[5], cnae_secao |-> k[6], cnae_subclasse |-> k[7],
     porte |-> k[8],
     total_carteira_ativa_segmento |-> SumSkipNa(membros, "carteira_ativa"),
     total_vencido_15d_segmento |-> SumSkipNa(membros, "vencido_acima_de_15_dias"),
     total_inadimplida_arrastada_segmento |->
         SumSkipNa(membros, "carteira_inadimplida_arrastada"),
     total_ativo_problematico_segmento |-> SumSkipNa(membros, "ativo_problematico"),
     media_taxa_inadimplencia_original |->
         Mean(membros, "taxa_inadimplencia_segmento"),
     media_perc_ativo_problematico_original |->
         Mean(membros, "perc_ativo_problematico"),
     contagem_clientes_unicos_segmento |-> NUnique(membros, "cliente"),
     contagem_subsegmentos |-> CountNotNull(membros, "data_base")]

(* .clip(lower=0.0, upper=1.0) *)
Clip(r) == IF FracLess(r, Zero) THEN Zero ELSE IF FracLess(One, r) THEN One ELSE r

(* A guarded ratio of two summed columns, then fillna(0), then clip: the   *)
(* sums are never NaN, so fillna changes nothing.                          *)
KpiFinal_SemClip(num, den) == IF den > 0 THEN Frac(num, den) ELSE Zero

KpiFinal_SemGuarda(num, den) ==
    IF den = 0 THEN (IF num > 0 THEN One ELSE Zero) ELSE Clip(Frac(num, den))

KpiFinal(num, den) == Clip(IF den > 0 THEN Frac(num, den) ELSE Zero)

(* The two KPI lambdas applied to an aggregated row. *)
TaxaInadimplenciaFinal_SemArrastada(row) ==
    KpiFinal(row.total_vencido_15d_segmento, row.total_carteira_ativa_segmento)

TaxaInadimplenciaFinal_DaMedia(row) == Clip(row.media_taxa_inadimplencia_original)

TaxaInadimplenciaFinal(row) ==
    KpiFinal(row.total_vencido_15d_segmento + row.total_inadimplida_arrastada_segmento,
             row.total_carteira_ativa_segmento)

PercAtivoProblematicoFinal(row) ==
    KpiFinal(row.total_ativo_problematico_segmento, row.total_carteira_ativa_segmento)

Segmento(row) ==
    [c \in DOMAIN row \cup {"taxa_inadimplencia_final_segmento",
                            "perc_ativo_problematico_final_segmento"} |->
        IF c = "taxa_inadimplencia_final_segmento" THEN TaxaInadimplenciaFinal(row)
        ELSE IF c = "perc_ativo_problematico_final_segmento"
             THEN PercAtivoProblematicoFinal(row)
             ELSE row[c]]

(* df['data_base'] = pd.to_datetime(df['data_base']).dt.normalize() *)
NormalizarDatas(rows) ==
    [i \in 1..Len(rows) |-> [rows[i] EXCEPT !.data_base = normalize(@)]]

(* The rows of one group, in file order. *)
Membros_PorData(rows, k) == SelectSeq(rows, LAMBDA r : r.data_base = k[1])

Membros(rows, k) == SelectSeq(rows, LAMBDA r : ChaveDe(r) = k)

(* The groups of a frame: the non-null keys that occur in it. *)
Grupos(rows) ==
    {k \in {ChaveDe(rows[i]) : i \in 1..Len(rows)} : ~ChaveNula(k)}

(* groupby(...).agg(...).reset_index() with the final KPIs attached. *)
Agregar(silverRows) ==
    LET df == NormalizarDatas(silverRows)
        chaves == SortChaves(Grupos(df))
    IN  [i \in 1..Len(chaves) |-> Segmento(AggRow(chaves[i], Membros(df, chaves[i])))]

(***************************************************************************)
(* Raw inputs.  A raw row is one line of a monthly CSV extract, every      *)
(* field a text.  The key texts cover: a plain date, the same day with a   *)
(* time of day and a padded state code, another size tier, and a date text *)
(* the parser rejects.  The value texts cover: plain amounts, thousands    *)
(* separators, a zero balance, an overdue amount above the balance, a      *)
(* negative amount, unparsable and empty fields, the '<= 15' sentinel, and *)
(* an operation count that is no number and contains the sentinel.         *)
(***************************************************************************)
RawChaves ==
    {[data_base |-> <<"2", "0", "2", "4", "-", "1", "2", "-", "3", "1">>,
      uf |-> <<"S", "P">>, porte |-> <<"M">>],
     [data_base |-> <<"2", "0", "2", "4", "-", "1", "2", "-", "3", "1", " ", "1", "0", ":", "3", "0">>,
      uf |-> <<" ", "S", "P", " ">>, porte |-> <<"M">>],
     [data_base |-> <<"2", "0", "2", "4", "-", "1", "2", "-", "3", "1">>,
      uf |-> <<"S", "P">>, porte |-> <<"G">>],
     [data_base |-> <<"3", "1", "/", "1", "2", "/", "2", "0", "2", "4">>,
      uf |-> <<"S", "P">>, porte |-> <<"M">>]}

RawValores ==
    {[numero_de_operacoes |-> <<"<", "=", " ", "1", "5">>, a_vencer_ate_90_dias |-> <<"5", "0", ",", "0", "0">>,
      carteira_ativa |-> <<"1", "0", "0", ",", "0", "0">>, vencido_acima_de_15_dias |-> <<"5", ",", "0", "0">>,
      carteira_inadimplida_arrastada |-> <<"0", ",", "0", "0">>, ativo_problematico |-> <<"1", "0", ",", "0", "0">>],
     [numero_de_operacoes |-> <<"2", "0">>, a_vencer_ate_90_dias |-> <<>>,
      carteira_ativa |-> <<>>, vencido_acima_de_15_dias |-> <<"7", ",", "0", "0">>,
      carteira_inadimplida_arrastada |-> <<"0", ",", "0", "0">>, ativo_problematico |-> <<"0", ",", "0", "0">>],
     [numero_de_operacoes |-> <<>>, a_vencer_ate_90_dias |-> <<"0", ",", "0", "0">>,
      carteira_ativa |-> <<"3", "0", "0", ",", "0", "0">>, vencido_acima_de_15_dias |-> <<"3", "0", ",", "0", "0">>,
      carteira_inadimplida_arrastada |-> <<"1", "5", ",", "0", "0">>, ativo_problematico |-> <<"6", "0", ",", "0", "0">>],
     [numero_de_operacoes |-> <<"<", "=", " ", "1", "5", "0">>, a_vencer_ate_90_dias |-> <<"0", ",", "0", "0">>,
      carteira_ativa |-> <<"0", ",", "0", "0">>, vencido_acima_de_15_dias |-> <<"1", "0", ",", "0", "0">>,
      carteira_inadimplida_arrastada |-> <<"0", ",", "0", "0">>, ativo_problematico |-> <<"0", ",", "0", "0">>],
     [numero_de_operacoes |-> <<"1", ".", "2", "0", "0">>, a_vencer_ate_90_dias |-> <<"1", ".", "0", "0", "0", ",", "0", "0">>,
      carteira_ativa |-> <<"1", ".", "0", "0", "0", ",", "0", "0">>, vencido_acima_de_15_dias |-> <<"1", ".", "0", "0", "0", ",", "0", "0">>,
      carteira_inadimplida_arrastada |-> <<"3", "7", "0", ",", "0", "0">>, ativo_problematico |-> <<"-", "1", ".", "5", "0", "0", ",", "0", "0">>],
     [numero_de_operacoes |-> <<"x">>, a_vencer_ate_90_dias |-> <<"-", "5", "0", ",", "0", "0">>,
      carteira_ativa |-> <<"1", "0", "0", ",", "0", "0">>, vencido_acima_de_15_dias |-> <<"5", ",", "0", "0">>,
      carteira_inadimplida_arrastada |-> <<"a", "b", "c">>, ativo_problematico |-> <<"1", "0", ",", "0", "0">>]}

SeqsUpTo(S, n) == UNION {[1..k -> S] : k \in 0..n}

RawRow(k, v) ==
    [data_base |-> k.data_base, uf |-> k.uf, cliente |-> <<"P", "F">>,
     modalidade |-> <<"P", "F", " ", "-", " ", "C">>,
     ocupacao |-> <<"P", "F", " ", "-", " ", "M", "E", "I">>,
     cnae_secao |-> <<"-">>, cnae_subclasse |-> <<"-">>, porte |-> k.porte,
     numero_de_operacoes |-> v.numero_de_operacoes,
     a_vencer_ate_90_dias |-> v.a_vencer_ate_90_dias,
     carteira_ativa |-> v.carteira_ativa,
     vencido_acima_de_15_dias |-> v.vencido_acima_de_15_dias,
     carteira_inadimplida_arrastada |-> v.carteira_inadimplida_arrastada,
     ativo_problematico |-> v.ativo_problematico]

RawRows == {RawRow(k, v) : k \in RawChaves, v \in RawValores}

(* Three rows of one segment with balances 100, 200, 300, overdue amounts  *)
(* 5, 0, 30 and no dragged default.                                        *)
ChaveA ==
    [data_base |-> <<"2", "0", "2", "4", "-", "1", "2", "-", "3", "1">>,
     uf |-> <<"S", "P">>, porte |-> <<"M">>]

ValorA(ca, v15) ==
    [numero_de_operacoes |-> <<"2", "0">>, a_vencer_ate_90_dias |-> <<"0", ",", "0", "0">>,
     carteira_ativa |-> ca, vencido_acima_de_15_dias |-> v15,
     carteira_inadimplida_arrastada |-> <<"0", ",", "0", "0">>,
     ativo_problematico |-> <<"0", ",", "0", "0">>]

CenarioA ==
    <<RawRow(ChaveA, ValorA(<<"1", "0", "0", ",", "0", "0">>, <<"5", ",", "0", "0">>)),
      RawRow(ChaveA, ValorA(<<"2", "0", "0", ",", "0", "0">>, <<"0", ",", "0", "0">>)),
      RawRow(ChaveA, ValorA(<<"3", "0", "0", ",", "0", "0">>, <<"3", "0", ",", "0", "0">>))>>

(* Two rows that differ in the client type only. *)
CenarioClientes ==
    <<CenarioA[1], [CenarioA[2] EXCEPT !.cliente = <<"P", "J">>]>>

(* The raw files: up to MaxRows rows, the first two any raw row and every  *)
(* further row one of two rows of the plain key (a null balance; balance   *)
(* 300.00 with dragged default), the three rows of scenario A, and the two *)
(* rows of two client types.                                               *)
RawRowsFinais ==
    {r \in RawRows :
        /\ r.data_base = ChaveA.data_base /\ r.uf = ChaveA.uf /\ r.porte = ChaveA.porte
        /\ r.numero_de_operacoes \in {<<"2", "0">>, <<>>}}

RawFiles ==
    {f \in SeqsUpTo(RawRows, MaxRows) : \A i \in 3..Len(f) : f[i] \in RawRowsFinais}
        \cup {CenarioA, CenarioClientes}

(***************************************************************************)
(* Files.  The months of the batch are named as in the file names,         *)
(* yyyymm; a file either does not exist, holds a sequence of rows, or was  *)
(* cut short by a write that did not finish: it exists and cannot be read. *)
(***************************************************************************)
Months == {202412, 202501}
FirstMonth == 202412
LastMonth == 202501

NoFile == [exists |-> FALSE, rows |-> <<>>, inteiro |-> TRUE]
File(rows) == [exists |-> TRUE, rows |-> rows, inteiro |-> TRUE]
Truncado == [exists |-> TRUE, rows |-> <<>>, inteiro |-> FALSE]

(* files_to_load.sort() and sorted(csv_files): file names in the order of  *)
(* their months.                                                           *)
RECURSIVE SortMonths(_)
SortMonths(S) ==
    IF S = {} THEN <<>>
    ELSE LET m == CHOOSE x \in S : \A y \in S : x <= y
         IN  <<m>> \o SortMonths(S \ {m})

(* The month after m, as the loops advance current_date_loop. *)
ProximoMes_PulaJaneiro(m) == IF m % 100 = 12 THEN (m \div 100 + 1) * 100 + 2 ELSE m + 1

ProximoMes(m) == IF m % 100 = 12 THEN (m \div 100 + 1) * 100 + 1 ELSE m + 1

(* usecols=COLUNAS_SCR_ESSENCIAIS: read_csv raises when a column is absent. *)
COLUNAS_SCR_ESSENCIAIS ==
    {"data_base", "uf", "cliente", "modalidade", "ocupacao", "cnae_secao",
     "cnae_subclasse", "porte", "numero_de_operacoes", "a_vencer_ate_90_dias",
     "carteira_ativa", "vencido_acima_de_15_dias", "carteira_inadimplida_arrastada",
     "ativo_problematico"}

read_csv_raises(f) ==
    \/ ~f.exists
    \/ \E i \in 1..Len(f.rows) : ~(COLUNAS_SCR_ESSENCIAIS \subseteq DOMAIN f.rows[i])

(* read_parquet raises on a file that was cut short. *)
read_parquet_raises(f) == ~f.inteiro

(***************************************************************************)
(* Small monthly extracts for the loader and the clustering stage: the     *)
(* rows of month m carry a date of month m.                                *)
(***************************************************************************)
DataDoMes(m) ==
    IF m = 202412 THEN <<"2", "0", "2", "4", "-", "1", "2", "-", "3", "1">>
    ELSE <<"2", "0", "2", "5", "-", "0", "1", "-", "3", "1">>

ValorPequeno(m, porte) ==
    [numero_de_operacoes |-> <<"2", "0">>, a_vencer_ate_90_dias |-> <<"0", ",", "0", "0">>,
     carteira_ativa |->
         IF porte = <<"M">> THEN <<"1", "0", "0", ",", "0", "0">>
         ELSE IF m = 202412 THEN <<"2", "0", "0", ",", "0", "0">>
         ELSE <<"3", "0", "0", ",", "0", "0">>,
     vencido_acima_de_15_dias |-> <<"5", ",", "0", "0">>,
     carteira_inadimplida_arrastada |-> <<"0", ",", "0", "0">>,
     ativo_problematico |-> <<"1", "0", ",", "0", "0">>]

LinhaPequena(m, porte) ==
    RawRow([data_base |-> DataDoMes(m), uf |-> <<"S", "P">>, porte |-> porte],
           ValorPequeno(m, porte))

Limpar(rawRows) == [i \in 1..Len(rawRows) |-> LimparLinha(rawRows[i])]

(* The silver files a month may have: none, one row, or two rows of two    *)
(* size tiers.                                                             *)
SilverPequenos(m) ==
    {NoFile,
     File(Limpar(<<LinhaPequena(m, <<"M">>)>>)),
     File(Limpar(<<LinhaPequena(m, <<"M">>), LinhaPequena(m, <<"G">>)>>))}

VARIABLES
    bronze,         \* raw_data/scr/planilha_<yyyymm>.csv
    silver,         \* data/silver/scr/treated_planilha_<yyyymm>.parquet
    gold,           \* data/gold/scr-tratado/<yyyy>/aggr_segmentos_<yyyymm>.parquet
    ft_scr_agregado_mensal,     \* the gold table of the database
    pcCarga,        \* position of the loader script
    files_to_load,  \* the loader's list of months still to load
    cargas,         \* number of loader invocations started
    erroCarga,      \* a database step of this loader invocation has failed
    statusCarga,    \* exit status of the loader invocation that ended last
    erroCluster,    \* per clustering invocation: a database step has failed
    sobrepostas,    \* two clustering invocations have been running at once
    ft_scr_segmentos_clusters,  \* the cluster assignment table
    dim_cluster_profiles,       \* the cluster profile table
    pcCluster,      \* position of each clustering invocation
    df_gold,        \* each clustering invocation's frame, with cluster_id
    kmeans,         \* fit_predict so far, by frame: RANDOM_STATE fixes its result
    pcLote,         \* which monthly batch script is running, or has just ended
    csv_files,      \* the cleaner batch's months still to process
    current_date_loop,  \* the aggregator batch's month (0: no batch running)
    lotes,          \* number of batches started
    log             \* warnings and errors of the batch script running or run
                    \* last, each <<script, month, level>>

varsArquivos == <<bronze, silver, gold>>
varsCarga == <<pcCarga, files_to_load, cargas, erroCarga, statusCarga>>
varsCluster ==
    <<ft_scr_segmentos_clusters, dim_cluster_profiles, pcCluster, df_gold, kmeans,
      erroCluster, sobrepostas>>
varsLote == <<pcLote, csv_files, current_date_loop, lotes>>

VARIABLES
    df_temporal,    \* the temporal page's monthly frame, ordered by mes
    selected_dates, \* the period chosen in the page's date input
    avg_value,      \* the two results of the page's last call of
    percent_change  \* calculate_metrics_for_period

VARIABLES
    pcViews,        \* position of the view refresh script
    specific_view,  \* its command line argument ("None": absent)
    views_to_refresh,   \* the views the function is to refresh
    tentativas,     \* the REFRESH statements executed, each <<view, succeeded>>
    success_count,  \* the function's counter of refreshes that succeeded
    transacao,      \* the connection's transaction: none, open, or aborted
    retorno,        \* what refresh_materialized_views returned to main
    chamadas,       \* main's calls on the connection, in order
    escapou,        \* an exception has escaped main
    mv_atualizada,  \* per view: the invocation whose refresh is committed
    atualizacoes    \* number of invocations of the script started

VARIABLES
    is_trained,     \* CreditRiskPredictor.is_trained
    model,          \* CreditRiskPredictor.model: 0 for None, else the fit that made it
    label_encoders, \* per categorical column, the encoder's classes_ in order
    X,              \* the encoded categorical features of the last prediction
    predicoes       \* number of predict_risk calls made

varsPreditor == <<is_trained, model, label_encoders, X, predicoes>>
varsPainel == <<df_temporal, selected_dates, avg_value, percent_change>>
varsViews ==
    <<pcViews, specific_view, views_to_refresh, tentativas, success_count, transacao,
      retorno, chamadas, escapou, mv_atualizada, atualizacoes>>
varsApp == <<varsPainel, varsViews, varsPreditor>>
vars ==
    <<bronze, silver, gold, ft_scr_agregado_mensal, pcCarga, files_to_load, cargas,
      ft_scr_segmentos_clusters, dim_cluster_profiles, pcCluster, df_gold, kmeans,
      erroCarga, statusCarga, erroCluster, sobrepostas, pcLote, csv_files, current_date_loop, lotes, log,
      varsApp>>

(***************************************************************************)
(* processar_bronze_to_silver_local on the raw file of month m.  Whatever  *)
(* raises inside the function is logged as an error and the function       *)
(* returns; otherwise every raw row is cleaned and kept, and the silver     *)
(* file is (over)written.  to_parquet writes into the destination itself,   *)
(* so a write that raises leaves the file cut short.                        *)
(***************************************************************************)
(* The log after a call of a monthly function: within a batch its         *)
(* messages follow those of the earlier months, a call on its own starts   *)
(* from an empty log.                                                      *)
LogAntes == IF pcLote = "idle" THEN {} ELSE log
Logado(script, m, nivel) == LogAntes \cup {<<script, m, nivel>>}

processar_bronze_to_silver_local(m) ==
    /\ IF read_csv_raises(bronze[m])
       THEN /\ silver' = silver
            /\ log' = Logado("bronze_to_silver", m, "error")
       ELSE \/ /\ silver' = [silver EXCEPT ![m] = Truncado]
               /\ log' = Logado("bronze_to_silver", m, "error")
            \/ /\ silver' = [silver EXCEPT ![m] = File(Limpar(bronze[m].rows))]
               /\ log' = LogAntes
    /\ UNCHANGED <<bronze, gold, ft_scr_agregado_mensal>>
    /\ UNCHANGED <<varsCarga, varsCluster, varsApp>>

(***************************************************************************)
(* processar_silver_to_gold on month m: a missing silver file is skipped   *)
(* with a warning, an exception is logged as an error; otherwise the gold  *)
(* file is (over)written with the aggregated segments, or left cut short   *)
(* when to_parquet raises.                                                 *)
(***************************************************************************)
processar_silver_to_gold_PrimeiroMes(m) ==
    /\ IF ~silver[m].exists \/ read_parquet_raises(silver[m])
       THEN gold' = gold
       ELSE gold' = [gold EXCEPT ![FirstMonth] = File(Agregar(silver[m].rows))]
    /\ log' = LogAntes
    /\ UNCHANGED <<bronze, silver, ft_scr_agregado_mensal>>
    /\ UNCHANGED <<varsCarga, varsCluster, varsApp>>

processar_silver_to_gold(m) ==
    /\ IF ~silver[m].exists
       THEN /\ gold' = gold
            /\ log' = Logado("silver_to_gold", m, "warning")
       ELSE IF read_parquet_raises(silver[m])
       THEN /\ gold' = gold
            /\ log' = Logado("silver_to_gold", m, "error")
       ELSE \/ /\ gold' = [gold EXCEPT ![m] = Truncado]
               /\ log' = Logado("silver_to_gold", m, "error")
            \/ /\ gold' = [gold EXCEPT ![m] = File(Agregar(silver[m].rows))]
               /\ log' = LogAntes
    /\ UNCHANGED <<bronze, silver, ft_scr_agregado_mensal>>
    /\ UNCHANGED <<varsCarga, varsCluster, varsApp>>

(***************************************************************************)
(* The monthly batches.  The cleaner script lists the planilha_*.csv files *)
(* of the raw folder and cleans them in sorted order; the aggregator       *)
(* script walks the months from start_date_process to end_date_process.    *)
(* One script runs at a time.                                              *)
(***************************************************************************)
LoteParado == pcLote \in {"idle", "bronze_fim", "gold_fim", "interrompido"}

BronzeInicio ==
    /\ LoteParado
    /\ lotes < MaxLotes
    /\ lotes' = lotes + 1
    /\ pcLote' = "bronze"
    /\ csv_files' = SortMonths({m \in Months : bronze[m].exists})
    /\ log' = IF csv_files' = <<>> THEN {<<"bronze_to_silver", 0, "warning">>} ELSE {}
    /\ UNCHANGED <<current_date_loop, varsArquivos, ft_scr_agregado_mensal>>
    /\ UNCHANGED <<varsCarga, varsCluster, varsApp>>

BronzePasso ==
    /\ pcLote = "bronze"
    /\ IF csv_files = <<>>
       THEN /\ pcLote' = "bronze_fim"
            /\ UNCHANGED <<csv_files, log, varsArquivos, ft_scr_agregado_mensal>>
            /\ UNCHANGED <<varsCarga, varsCluster, varsApp>>
       ELSE /\ processar_bronze_to_silver_local(Head(csv_files))
            /\ csv_files' = Tail(csv_files)
            /\ UNCHANGED pcLote
    /\ UNCHANGED <<current_date_loop, lotes>>

GoldInicio ==
    /\ LoteParado
    /\ lotes < MaxLotes
    /\ lotes' = lotes + 1
    /\ pcLote' = "gold"
    /\ current_date_loop' = FirstMonth
    /\ log' = {}
    /\ UNCHANGED <<csv_files, varsArquivos, ft_scr_agregado_mensal>>
    /\ UNCHANGED <<varsCarga, varsCluster, varsApp>>

GoldPasso_Fatal ==
    /\ pcLote = "gold"
    /\ IF current_date_loop > LastMonth \/ ~silver[current_date_loop].exists
       THEN /\ pcLote' = "gold_fim"
            /\ current_date_loop' = 0
            /\ UNCHANGED <<log, varsArquivos, ft_scr_agregado_mensal>>
            /\ UNCHANGED <<varsCarga, varsCluster, varsApp>>
       ELSE /\ processar_silver_to_gold(current_date_loop)
            /\ current_date_loop' = ProximoMes(current_date_loop)
            /\ UNCHANGED pcLote
    /\ UNCHANGED <<csv_files, lotes>>

GoldPasso ==
    /\ pcLote = "gold"
    /\ IF current_date_loop > LastMonth
       THEN /\ pcLote' = "gold_fim"
            /\ current_date_loop' = 0
            /\ UNCHANGED <<log, varsArquivos, ft_scr_agregado_mensal>>
            /\ UNCHANGED <<varsCarga, varsCluster, varsApp>>
       ELSE /\ processar_silver_to_gold(current_date_loop)
            /\ current_date_loop' = ProximoMes(current_date_loop)
            /\ UNCHANGED pcLote
    /\ UNCHANGED <<csv_files, lotes>>

(* The aggregator process is stopped from outside while to_parquet is      *)
(* writing the month's gold file: the file is left cut short.              *)
GoldInterrompido ==
    /\ pcLote = "gold"
    /\ current_date_loop <= LastMonth
    /\ silver[current_date_loop].exists
    /\ ~read_parquet_raises(silver[current_date_loop])
    /\ gold' = [gold EXCEPT ![current_date_loop] = Truncado]
    /\ pcLote' = "interrompido"
    /\ current_date_loop' = 0
    /\ UNCHANGED <<bronze, silver, ft_scr_agregado_mensal, csv_files, lotes, log>>
    /\ UNCHANGED <<varsCarga, varsCluster, varsApp>>

(***************************************************************************)
(* DataFrame.to_sql(table, if_exists=mode): the tables it can leave.  On   *)
(* success 'replace' leaves exactly the frame's rows and 'append' adds     *)
(* them after the rows already there (creating the table when absent).     *)
(* to_sql works in one transaction of the engine (the scripts target       *)
(* SQLAlchemy 2.0+), so when the call raises the table is as before.       *)
(***************************************************************************)
to_sql_ok_SempreAppend(tab, rows, mode) == File(tab.rows \o rows)

to_sql_ok(tab, rows, mode) ==
    IF mode = "replace" THEN File(rows) ELSE File(tab.rows \o rows)

to_sql_raises(tab, mode) == tab

(***************************************************************************)
(* The loader script python_load_gold_aggr_to_db.                          *)
(***************************************************************************)
TABELA_DESTINO_POSTGRESQL == "ft_scr_agregado_mensal"

(* carregar_gold_to_postgresql: the exception of a failed to_sql is logged *)
(* and swallowed, so the caller goes on either way.                        *)
carregar_gold_to_postgresql(df, if_exists_mode) ==
    \/ /\ ft_scr_agregado_mensal' =
              to_sql_ok(ft_scr_agregado_mensal, df, if_exists_mode)
       /\ UNCHANGED erroCarga
    \/ /\ ft_scr_agregado_mensal' =
              to_sql_raises(ft_scr_agregado_mensal, if_exists_mode)
       /\ erroCarga' = TRUE

(* The loader's scan of the period, from month m on: the while loop of     *)
(* lines 137-156, which appends the months whose gold file exists.         *)
RECURSIVE Varredura(_)
Varredura(m) ==
    IF m > LastMonth THEN <<>>
    ELSE (IF gold[m].exists THEN <<m>> ELSE <<>>) \o Varredura(ProximoMes(m))

(* The connection test, then the scan of the period for gold files.  When  *)
(* the connection fails the script leaves with exit(), that is status 0;   *)
(* with no file to load it ends normally.                                  *)
CargaInicio ==
    /\ pcCarga = "idle"
    /\ cargas < MaxCargas
    /\ cargas' = cargas + 1
    /\ statusCarga' = 0
    /\ \/ /\ pcCarga' = "idle"
          /\ erroCarga' = TRUE
          /\ UNCHANGED files_to_load
       \/ /\ files_to_load' =
               LET achados == Varredura(FirstMonth)
               IN  SortMonths({achados[i] : i \in 1..Len(achados)})
          /\ pcCarga' = IF files_to_load' = <<>> THEN "idle" ELSE "primeiro"
          /\ erroCarga' = FALSE
    /\ UNCHANGED <<ft_scr_agregado_mensal, bronze, silver, gold, varsCluster>>
    /\ UNCHANGED <<varsLote, log, varsApp>>

(* The first file is loaded with 'replace'; when reading it raises, the    *)
(* script leaves with exit().                                              *)
CargaPrimeiro ==
    /\ pcCarga = "primeiro"
    /\ IF read_parquet_raises(gold[files_to_load[1]])
       THEN /\ pcCarga' = "idle"
            /\ UNCHANGED <<ft_scr_agregado_mensal, files_to_load, erroCarga>>
       ELSE /\ carregar_gold_to_postgresql(gold[files_to_load[1]].rows, "replace")
            /\ files_to_load' = Tail(files_to_load)
            /\ pcCarga' = "restantes"
    /\ UNCHANGED <<cargas, statusCarga, bronze, silver, gold, varsCluster>>
    /\ UNCHANGED <<varsLote, log, varsApp>>

(* Every remaining file is loaded with 'append'; reading is outside any    *)
(* try, so a file that cannot be read ends the script with a traceback.    *)
CargaRestante ==
    /\ pcCarga = "restantes"
    /\ IF files_to_load = <<>>
       THEN /\ pcCarga' = "idle"
            /\ UNCHANGED <<ft_scr_agregado_mensal, files_to_load, erroCarga, statusCarga>>
       ELSE IF read_parquet_raises(gold[files_to_load[1]])
       THEN /\ pcCarga' = "idle"
            /\ statusCarga' = 1
            /\ UNCHANGED <<ft_scr_agregado_mensal, files_to_load, erroCarga>>
       ELSE /\ carregar_gold_to_postgresql(gold[files_to_load[1]].rows, "append")
            /\ files_to_load' = Tail(files_to_load)
            /\ pcCarga' = "restantes"
            /\ UNCHANGED statusCarga
    /\ UNCHANGED <<cargas, bronze, silver, gold, varsCluster>>
    /\ UNCHANGED <<varsLote, log, varsApp>>

(***************************************************************************)
(* The clustering script pipeline_gold_clustering.                         *)
(***************************************************************************)
N_CLUSTERS == 4

Execucoes == 1..MaxExecucoes

(* A cluster table: its rows and the invocation that wrote it (0: none).   *)
SemTabela == [exists |-> FALSE, rows |-> <<>>, run |-> 0]
Tabela(rows, e) == [exists |-> TRUE, rows |-> rows, run |-> e]

features_for_clustering_numeric ==
    <<"total_carteira_ativa_segmento", "taxa_inadimplencia_final_segmento",
      "perc_ativo_problematico_final_segmento", "contagem_subsegmentos">>

features_for_profiling_categorical ==
    <<"uf", "cliente", "modalidade", "ocupacao", "porte", "cnae_secao",
      "cnae_subclasse">>

Features(row) ==
    [i \in 1..Len(features_for_clustering_numeric) |->
        row[features_for_clustering_numeric[i]]]

(* KMeans(n_clusters=N_CLUSTERS).fit_predict: the labelings it can return. *)
(* Equal feature vectors get the same label, and the number of labels in   *)
(* use is N_CLUSTERS, or the number of distinct vectors when that is less. *)
Rotulos(rows) ==
    LET n == Len(rows)
        pontos == {Features(rows[i]) : i \in 1..n}
        usados == IF Cardinality(pontos) < N_CLUSTERS
                  THEN Cardinality(pontos) ELSE N_CLUSTERS
    IN  {l \in [1..n -> 0..(N_CLUSTERS - 1)] :
            /\ \A i, j \in 1..n : Features(rows[i]) = Features(rows[j]) => l[i] = l[j]
            /\ Cardinality({l[i] : i \in 1..n}) = usados}

ComCluster(rows, l) ==
    [i \in 1..Len(rows) |->
        [c \in DOMAIN rows[i] \cup {"cluster_id"} |->
            IF c = "cluster_id" THEN l[i] ELSE rows[i][c]]]

(* x.mode()[0]: the most frequent values sorted, the first of them taken.  *)
Moda(rows, col) ==
    LET vals == {rows[i][col] : i \in 1..Len(rows)}
        freq(v) == Cardinality({i \in 1..Len(rows) : rows[i][col] = v})
        top == {v \in vals : \A w \in vals : freq(w) <= freq(v)}
    IN  CHOOSE v \in top : \A w \in top \ {v} : TextLess(v, w)

(* One row per cluster id in range(N_CLUSTERS); the categorical modes are  *)
(* left-merged, so a cluster without members has none.                     *)
Perfis_SoComMembros(df) ==
    LET ids == {df[i].cluster_id : i \in 1..Len(df)}
        ord == SortMonths(ids)
    IN  [k \in 1..Len(ord) |-> [cluster_id |-> ord[k], membros |-> 1, modas |-> <<>>]]

Perfis(df) ==
    [k \in 1..N_CLUSTERS |->
        LET membros == SelectSeq(df, LAMBDA r : r.cluster_id = k - 1)
        IN  [cluster_id |-> k - 1,
             membros |-> Len(membros),
             modas |-> IF membros = <<>> THEN <<>>
                       ELSE [i \in 1..Len(features_for_profiling_categorical) |->
                                Moda(membros, features_for_profiling_categorical[i])]]]

(* save_to_db(df, table, 'replace'): to_sql, its exception re-raised. *)
save_to_db_ok(df, e) == Tabela(df, e)
save_to_db_raises(tab, e) == tab

(* An invocation that is not between its start and its end. *)
Parado(e) == pcCluster[e] \in {"pronto", "ok", "falha"}

(* The invocations are numbered in the order in which they start. *)
Proxima(e) == \A o \in Execucoes : o < e => pcCluster[o] # "pronto"

(* fit_predict with the fixed seed is a function of the frame: the first   *)
(* fit of a frame picks one of its labelings, a later fit repeats it.      *)
fit_predict(df) == IF df \in DOMAIN kmeans THEN {kmeans[df]} ELSE Rotulos(df)

(* df_clustering_input.dropna(): the rows without a null feature.  In the  *)
(* tables of the model a null occurs in the two rate columns only.         *)
dropna(rows) ==
    SelectSeq(rows, LAMBDA r : /\ r.taxa_inadimplencia_final_segmento # NaN
                               /\ r.perc_ativo_problematico_final_segmento # NaN)

(* What stops the script between the load and the first write: exit(1) on  *)
(* an empty frame (line 106) and on a frame empty after dropna (line 139), *)
(* the ValueError of KMeans on fewer samples than clusters, and the        *)
(* ValueError of the cluster_id assignment when dropna removed a row, the  *)
(* labels then being fewer than the rows of df_gold.                       *)
ParaAntesDeGravar_SoVazio(df) == df = <<>> \/ dropna(df) = <<>>

ParaAntesDeGravar(df) ==
    \/ df = <<>>
    \/ dropna(df) = <<>>
    \/ Len(dropna(df)) < N_CLUSTERS
    \/ Len(dropna(df)) # Len(df)

(* get_db_engine, load_data_from_db, the emptiness checks, the scaler and  *)
(* k-means: the invocation ends in failure when the database or the source *)
(* table cannot be read, or when the frame stops the script as above.      *)
ClusterCarregar(e) ==
    /\ pcCluster[e] = "pronto"
    /\ Proxima(e)
    /\ sobrepostas' = (sobrepostas \/ \E o \in Execucoes : ~Parado(o))
    /\ \/ /\ pcCluster' = [pcCluster EXCEPT ![e] = "falha"]
          /\ erroCluster' = [erroCluster EXCEPT ![e] = TRUE]
          /\ UNCHANGED <<df_gold, kmeans>>
       \/ /\ ft_scr_agregado_mensal.exists
          /\ UNCHANGED erroCluster
          /\ LET df == ft_scr_agregado_mensal.rows
             IN  IF ParaAntesDeGravar(df)
                 THEN /\ pcCluster' = [pcCluster EXCEPT ![e] = "falha"]
                      /\ UNCHANGED <<df_gold, kmeans>>
                 ELSE \E l \in fit_predict(df) :
                      /\ kmeans' = (df :> l) @@ kmeans
                      /\ df_gold' = [df_gold EXCEPT ![e] = ComCluster(df, l)]
                      /\ pcCluster' = [pcCluster EXCEPT ![e] = "salvar_segmentos"]
    /\ UNCHANGED <<ft_scr_segmentos_clusters, dim_cluster_profiles>>
    /\ UNCHANGED <<ft_scr_agregado_mensal, varsArquivos, varsCarga>>
    /\ UNCHANGED <<varsLote, log, varsApp>>

(* Step 5: the segments with their cluster_id replace the assignment       *)
(* table; a failure ends the invocation with exit(1).                      *)
ClusterSalvarSegmentos(e) ==
    /\ pcCluster[e] = "salvar_segmentos"
    /\ \/ /\ ft_scr_segmentos_clusters' = save_to_db_ok(df_gold[e], e)
          /\ pcCluster' = [pcCluster EXCEPT ![e] = "salvar_perfis"]
          /\ UNCHANGED erroCluster
       \/ /\ ft_scr_segmentos_clusters' = save_to_db_raises(ft_scr_segmentos_clusters, e)
          /\ pcCluster' = [pcCluster EXCEPT ![e] = "falha"]
          /\ erroCluster' = [erroCluster EXCEPT ![e] = TRUE]
    /\ UNCHANGED <<dim_cluster_profiles, df_gold, kmeans, sobrepostas>>
    /\ UNCHANGED <<ft_scr_agregado_mensal, varsArquivos, varsCarga>>
    /\ UNCHANGED <<varsLote, log, varsApp>>

(* Step 6: the profiles are computed and replace the profile table; a      *)
(* failure ends the invocation with exit(1).                               *)
ClusterSalvarPerfis_SeAusente(e) ==
    /\ pcCluster[e] = "salvar_perfis"
    /\ dim_cluster_profiles' =
           IF dim_cluster_profiles.exists THEN dim_cluster_profiles
           ELSE save_to_db_ok(Perfis(df_gold[e]), e)
    /\ pcCluster' = [pcCluster EXCEPT ![e] = "ok"]
    /\ UNCHANGED <<ft_scr_segmentos_clusters, df_gold, kmeans, erroCluster, sobrepostas>>
    /\ UNCHANGED <<ft_scr_agregado_mensal, varsArquivos, varsCarga>>
    /\ UNCHANGED <<varsLote, log, varsApp>>

ClusterSalvarPerfis(e) ==
    /\ pcCluster[e] = "salvar_perfis"
    /\ \/ /\ dim_cluster_profiles' = save_to_db_ok(Perfis(df_gold[e]), e)
          /\ pcCluster' = [pcCluster EXCEPT ![e] = "ok"]
          /\ UNCHANGED erroCluster
       \/ /\ dim_cluster_profiles' = save_to_db_raises(dim_cluster_profiles, e)
          /\ pcCluster' = [pcCluster EXCEPT ![e] = "falha"]
          /\ erroCluster' = [erroCluster EXCEPT ![e] = TRUE]
    /\ UNCHANGED <<ft_scr_segmentos_clusters, df_gold, kmeans, sobrepostas>>
    /\ UNCHANGED <<ft_scr_agregado_mensal, varsArquivos, varsCarga>>
    /\ UNCHANGED <<varsLote, log, varsApp>>

(***************************************************************************)
(* The temporal page of the dashboard.  The frame holds one row per month, *)
(* mes being the first day of the month and the metric a number; days are  *)
(* counted from the first month's first day.  Python numbers are modelled  *)
(* by their value as exact fractions: the int 0 and the float 0.0 compare  *)
(* equal and the page formats both with ',.2f'.                            *)
(***************************************************************************)
MaxMeses == 3
InicioDoMes(k) == 2 * k - 1
DiasPainel == 1..InicioDoMes(MaxMeses)
ValoresPainel == {0, 2, 3}

(* df[(df['mes'] >= start_date) & (df['mes'] <= end_date)] *)
Filtrar(df, start_date, end_date) ==
    SelectSeq(df, LAMBDA r : r.mes >= start_date /\ r.mes <= end_date)

RECURSIVE SomaValores(_)
SomaValores(df) == IF df = <<>> THEN 0 ELSE Head(df).valor + SomaValores(Tail(df))

(* sort_values(by='mes') followed by iloc[0] and iloc[-1]. *)
PrimeiraLinha(df) ==
    CHOOSE r \in {df[i] : i \in 1..Len(df)} : \A i \in 1..Len(df) : r.mes <= df[i].mes
UltimaLinha(df) ==
    CHOOSE r \in {df[i] : i \in 1..Len(df)} : \A i \in 1..Len(df) : r.mes >= df[i].mes

calculate_metrics_for_period(df, start_date, end_date) ==
    LET df_filtered == Filtrar(df, start_date, end_date)
    IN  IF df_filtered = <<>> THEN <<Zero, Zero>>
        ELSE LET mean == Frac(SomaValores(df_filtered), Len(df_filtered))
                 first_value == PrimeiraLinha(df_filtered).valor
                 last_value == UltimaLinha(df_filtered).valor
             IN  IF Len(df_filtered) >= 2 /\ first_value # 0
                 THEN <<mean, Frac((last_value - first_value) * 100, first_value)>>
                 ELSE <<mean, Zero>>

(* The frames of the page: the months present, each with a metric value.   *)
QuadrosPainel ==
    UNION {{[i \in 1..Len(ms) |-> [mes |-> InicioDoMes(ms[i]), valor |-> vs[i]]] :
               vs \in [1..Len(ms) -> ValoresPainel]} :
           ms \in {SortMonths(S) : S \in SUBSET (1..MaxMeses)}}

(* One run of the page script after an interaction with the date input:    *)
(* two dates are taken as they are, one date is a period of one day, and   *)
(* anything else falls back to the whole period; then the metrics of the   *)
(* chosen period are computed for display.                                 *)
PaginaTemporal ==
    /\ df_temporal # <<>>
    /\ \E selected_dates_raw \in SeqsUpTo(DiasPainel, 2) :
          LET default_start_date == PrimeiraLinha(df_temporal).mes
              default_end_date == UltimaLinha(df_temporal).mes
              dates == IF Len(selected_dates_raw) = 2 THEN selected_dates_raw
                       ELSE IF Len(selected_dates_raw) = 1
                            THEN <<selected_dates_raw[1], selected_dates_raw[1]>>
                            ELSE <<default_start_date, default_end_date>>
              metrics == calculate_metrics_for_period(df_temporal, dates[1], dates[2])
          IN  /\ \A i \in 1..Len(selected_dates_raw) :
                    /\ selected_dates_raw[i] >= default_start_date
                    /\ selected_dates_raw[i] <= default_end_date
              /\ Len(selected_dates_raw) = 2 => selected_dates_raw[1] <= selected_dates_raw[2]
              /\ selected_dates' = dates
              /\ avg_value' = metrics[1]
              /\ percent_change' = metrics[2]
    /\ UNCHANGED df_temporal
    /\ UNCHANGED <<varsArquivos, ft_scr_agregado_mensal, varsCarga, varsCluster, varsLote, log>>
    /\ UNCHANGED <<varsViews, varsPreditor>>

(***************************************************************************)
(* The script refresh_materialized_views.  main opens a connection (no     *)
(* autocommit), lets the function execute one REFRESH per view and then    *)
(* commits.  A statement that fails aborts the connection's transaction:   *)
(* every later statement of the transaction raises as well, and the        *)
(* commit of an aborted transaction succeeds and discards its work.        *)
(***************************************************************************)
MaxAtualizacoes == 2

TodasAsViews ==
    <<"mv_scr_agregado_uf", "mv_scr_tendencia_mensal", "mv_scr_agregado_segmentos",
      "mv_scr_top_combinacoes_risco", "mv_indicadores_economicos_resumo">>

(* sys.argv[1]: absent, a listed view, or a name that is not listed. *)
Argumentos == {"None", "mv_scr_tendencia_mensal", "mv_inexistente"}

(* return success_count == len(views_to_refresh) *)
Retorno_Algum(count, n) == IF count > 0 THEN "True" ELSE "False"

Retorno(count, n) == IF count = n THEN "True" ELSE "False"

(* main up to the call of the function, and the function up to its loop.   *)
(* get_db_connection re-raises: conn is None and main only re-raises.  A   *)
(* failing conn.cursor() is rolled back, re-raised and the connection      *)
(* closed.  An argument that is not a listed view returns False at once.   *)
ViewsMain ==
    /\ pcViews = "idle"
    /\ atualizacoes < MaxAtualizacoes
    /\ atualizacoes' = atualizacoes + 1
    /\ \E arg \in Argumentos :
          /\ specific_view' = arg
          /\ tentativas' = <<>>
          /\ success_count' = 0
          /\ \/ /\ pcViews' = "idle"
                /\ escapou' = TRUE
                /\ chamadas' \in {<<>>, <<"rollback", "close">>}
                /\ transacao' = "nenhuma"
                /\ retorno' = "nenhum"
                /\ views_to_refresh' = <<>>
             \/ /\ escapou' = FALSE
                /\ chamadas' = <<>>
                /\ transacao' = "aberta"
                /\ IF arg = "None"
                   THEN /\ views_to_refresh' = TodasAsViews
                        /\ retorno' = "nenhum"
                        /\ pcViews' = "refresh"
                   ELSE IF \E i \in 1..Len(TodasAsViews) : TodasAsViews[i] = arg
                   THEN /\ views_to_refresh' = <<arg>>
                        /\ retorno' = "nenhum"
                        /\ pcViews' = "refresh"
                   ELSE /\ views_to_refresh' = TodasAsViews
                        /\ retorno' = "False"
                        /\ pcViews' = "commit"
    /\ UNCHANGED mv_atualizada
    /\ UNCHANGED <<varsArquivos, ft_scr_agregado_mensal, varsCarga, varsCluster, varsLote, log>>
    /\ UNCHANGED <<varsPainel, varsPreditor>>

(* One pass of the loop: the REFRESH of the next view is executed; its     *)
(* exception is logged and the loop goes on.  After the last view the      *)
(* function returns.                                                       *)
ViewsRefresh ==
    /\ pcViews = "refresh"
    /\ IF Len(tentativas) = Len(views_to_refresh)
       THEN /\ retorno' = Retorno(success_count, Len(views_to_refresh))
            /\ pcViews' = "commit"
            /\ UNCHANGED <<tentativas, success_count, transacao>>
       ELSE LET view == views_to_refresh[Len(tentativas) + 1]
            IN  /\ \/ /\ tentativas' = Append(tentativas, <<view, FALSE>>)
                      /\ transacao' = "abortada"
                      /\ UNCHANGED success_count
                   \/ /\ transacao = "aberta"
                      /\ tentativas' = Append(tentativas, <<view, TRUE>>)
                      /\ success_count' = success_count + 1
                      /\ UNCHANGED transacao
                /\ UNCHANGED <<retorno, pcViews>>
    /\ UNCHANGED <<specific_view, views_to_refresh, chamadas, escapou, mv_atualizada, atualizacoes>>
    /\ UNCHANGED <<varsArquivos, ft_scr_agregado_mensal, varsCarga, varsCluster, varsLote, log>>
    /\ UNCHANGED <<varsPainel, varsPreditor>>

(* conn.commit(), then the finally clause.  When commit raises the except  *)
(* clause rolls back and re-raises.                                        *)
ViewsCommit ==
    /\ pcViews = "commit"
    /\ pcViews' = "idle"
    /\ \/ /\ chamadas' = <<"commit", "rollback", "close">>
          /\ escapou' = TRUE
          /\ UNCHANGED mv_atualizada
       \/ /\ chamadas' = <<"commit", "close">>
          /\ UNCHANGED escapou
          /\ mv_atualizada' =
                [v \in DOMAIN mv_atualizada |->
                    IF transacao = "aberta" /\ \E i \in 1..Len(tentativas) : tentativas[i] = <<v, TRUE>>
                    THEN atualizacoes ELSE mv_atualizada[v]]
    /\ transacao' = "nenhuma"
    /\ UNCHANGED <<specific_view, views_to_refresh, tentativas, success_count, retorno, atualizacoes>>
    /\ UNCHANGED <<varsArquivos, ft_scr_agregado_mensal, varsCarga, varsCluster, varsLote, log>>
    /\ UNCHANGED <<varsPainel, varsPreditor>>

InitViews ==
    /\ pcViews = "idle"
    /\ specific_view = "None"
    /\ views_to_refresh = <<>>
    /\ tentativas = <<>>
    /\ success_count = 0
    /\ transacao = "nenhuma"
    /\ retorno = "nenhum"
    /\ chamadas = <<>>
    /\ escapou = FALSE
    /\ mv_atualizada = [v \in {TodasAsViews[i] : i \in 1..Len(TodasAsViews)} |-> 0]
    /\ atualizacoes = 0

(***************************************************************************)
(* CreditRiskPredictor of the dashboard.  A category value is one of four  *)
(* texts, listed in their sort order, or null; a training frame is a       *)
(* sequence of rows, a row giving one value to each categorical feature.   *)
(* The numeric features and the fitted forest take no part in what the     *)
(* encoders hold and are left out: a model is known by the fit it is from. *)
(***************************************************************************)
MaxPredicoes == 2
MaxTreinos == 2

categorical_features == <<"uf", "modalidade", "porte", "cnae_secao", "cnae_subclasse">>
ColunasCategoricas == {categorical_features[i] : i \in 1..Len(categorical_features)}

OrdemCategorias == <<"A", "B", "UNKNOWN", "Z">>
Nulo == "<NA>"

LinhaDe(v) == [c \in ColunasCategoricas |-> v]

(* The training frames: one or two rows, all columns "A", all columns "B", *)
(* or "A" with a null uf.                                                  *)
LinhasDeTreino == {LinhaDe("A"), LinhaDe("B"), [LinhaDe("A") EXCEPT !["uf"] = Nulo]}
QuadrosDeTreino == SeqsUpTo(LinhasDeTreino, 2) \ {<<>>}

(* The rows predict_risk is called with: all seen, an unseen porte, a uf   *)
(* that may or may not have been seen.                                     *)
Entradas == {LinhaDe("A"), [LinhaDe("A") EXCEPT !["porte"] = "Z"], [LinhaDe("A") EXCEPT !["uf"] = "B"]}

(* fillna('UNKNOWN') *)
fillna(v) == IF v = Nulo THEN "UNKNOWN" ELSE v

(* LabelEncoder.fit: classes_ are the distinct values, sorted. *)
fit(valores) == SelectSeq(OrdemCategorias, LAMBDA v : v \in valores)

(* LabelEncoder.transform: the position of the value in classes_. *)
transform(classes, v) == (CHOOSE i \in 1..Len(classes) : classes[i] = v) - 1

(* preprocess_data(df, is_training=False) on one column: classes_ after    *)
(* the call, 'UNKNOWN' appended when it is not among them.                 *)
ClassesDepois(classes) ==
    IF \E i \in 1..Len(classes) : classes[i] = "UNKNOWN" THEN classes
    ELSE Append(classes, "UNKNOWN")

(* train_model: preprocess_data(df, is_training=True) fits a new encoder   *)
(* per categorical column, then the forest is fitted.                      *)
train_model ==
    /\ model < MaxTreinos
    /\ \E df \in QuadrosDeTreino :
          label_encoders' =
              [c \in ColunasCategoricas |-> fit({fillna(df[i][c]) : i \in 1..Len(df)})]
    /\ model' = model + 1
    /\ is_trained' = TRUE
    /\ UNCHANGED <<X, predicoes>>
    /\ UNCHANGED <<varsArquivos, ft_scr_agregado_mensal, varsCarga, varsCluster, varsLote, log>>
    /\ UNCHANGED <<varsPainel, varsViews>>

(* predict_risk(input_data): ValueError when not trained; otherwise the    *)
(* input row goes through preprocess_data(df, is_training=False), which    *)
(* maps a value that is not among classes_ to 'UNKNOWN', appends 'UNKNOWN' *)
(* to classes_ when it is not there, and transforms.                       *)
predict_risk ==
    /\ predicoes < MaxPredicoes
    /\ predicoes' = predicoes + 1
    /\ \E input_data \in Entradas :
          IF ~is_trained
          THEN UNCHANGED <<label_encoders, X>>
          ELSE /\ label_encoders' =
                     [c \in ColunasCategoricas |-> ClassesDepois(label_encoders[c])]
               /\ X' = [i \in 1..Len(categorical_features) |->
                           LET c == categorical_features[i]
                               unique_values == {label_encoders[c][k] : k \in 1..Len(label_encoders[c])}
                               x == IF fillna(input_data[c]) \in unique_values
                                    THEN fillna(input_data[c]) ELSE "UNKNOWN"
                           IN  transform(label_encoders'[c], x)]
    /\ UNCHANGED <<is_trained, model>>
    /\ UNCHANGED <<varsArquivos, ft_scr_agregado_mensal, varsCarga, varsCluster, varsLote, log>>
    /\ UNCHANGED <<varsPainel, varsViews>>

InitPreditor ==
    /\ is_trained = FALSE
    /\ model = 0
    /\ label_encoders = [c \in ColunasCategoricas |-> <<>>]
    /\ X = <<>>
    /\ predicoes = 0

(***************************************************************************)
(* The cleaner and the aggregator over one monthly extract.                *)
(***************************************************************************)
InitPainel ==
    /\ df_temporal = <<>>
    /\ selected_dates = <<0, 0>>
    /\ avg_value = Zero
    /\ percent_change = Zero

InitApp == InitPainel /\ InitViews /\ InitPreditor

InitCarga ==
    /\ pcCarga = "idle"
    /\ files_to_load = <<>>
    /\ cargas = 0
    /\ erroCarga = FALSE
    /\ statusCarga = 0

InitLote ==
    /\ pcLote = "idle"
    /\ csv_files = <<>>
    /\ current_date_loop = 0
    /\ lotes = 0
    /\ log = {}

InitCluster ==
    /\ ft_scr_segmentos_clusters = SemTabela
    /\ dim_cluster_profiles = SemTabela
    /\ pcCluster = [e \in Execucoes |-> "pronto"]
    /\ df_gold = [e \in Execucoes |-> <<>>]
    /\ kmeans = <<>>
    /\ erroCluster = [e \in Execucoes |-> FALSE]
    /\ sobrepostas = FALSE

Init ==
    /\ \E rows \in RawFiles :
          bronze = [m \in Months |-> IF m = FirstMonth THEN File(rows) ELSE NoFile]
    /\ silver = [m \in Months |-> NoFile]
    /\ gold = [m \in Months |-> NoFile]
    /\ ft_scr_agregado_mensal = NoFile
    /\ InitCarga
    /\ InitCluster
    /\ InitLote
    /\ InitApp

Next ==
    \/ processar_bronze_to_silver_local(FirstMonth) /\ UNCHANGED varsLote
    \/ processar_silver_to_gold(FirstMonth) /\ UNCHANGED varsLote

Spec == Init /\ [][Next]_vars

(***************************************************************************)
(* Runs of the aggregator followed by runs of the loader, over fixed       *)
(* monthly silver files.  The scripts run one after the other.             *)
(***************************************************************************)
InitSilverGold ==
    /\ bronze = [m \in Months |-> NoFile]
    /\ silver \in {f \in [Months -> UNION {SilverPequenos(m) : m \in Months}] :
                     \A m \in Months : f[m] \in SilverPequenos(m)}
    /\ gold = [m \in Months |-> NoFile]
    /\ ft_scr_agregado_mensal = NoFile
    /\ InitCarga
    /\ InitCluster
    /\ InitLote
    /\ InitApp

NextSilverGold ==
    \/ \E m \in Months :
          pcCarga = "idle" /\ processar_silver_to_gold(m) /\ UNCHANGED varsLote
    \/ CargaInicio
    \/ CargaPrimeiro
    \/ CargaRestante

SpecCarga == InitSilverGold /\ [][NextSilverGold]_vars

(***************************************************************************)
(* Clustering invocations, one after the other, on a gold table loaded     *)
(* from the small monthly files: not yet created, empty, one month, both   *)
(* months, both months with the second month loaded twice, four segments   *)
(* with four different feature vectors, four segments of which two of      *)
(* different tiers have equal features, and tables holding null rates.     *)
(***************************************************************************)
GoldPequeno(m) == Agregar(Limpar(<<LinhaPequena(m, <<"M">>), LinhaPequena(m, <<"G">>)>>))

(* The second month with a balance of 400 in the segment of tier M. *)
GoldDistinto ==
    Agregar(Limpar(
        <<RawRow([data_base |-> DataDoMes(202501), uf |-> <<"S", "P">>, porte |-> <<"M">>],
                 ValorA(<<"4", "0", "0", ",", "0", "0">>, <<"5", ",", "0", "0">>)),
          LinhaPequena(202501, <<"G">>)>>))

(* Two months loaded in order in which the tier M segment of the first     *)
(* month and the tier G segment of the second have the same amounts.       *)
GoldEmpate ==
    GoldPequeno(202412) \o
    Agregar(Limpar(
        <<RawRow([data_base |-> DataDoMes(202501), uf |-> <<"S", "P">>, porte |-> <<"G">>],
                 ValorPequeno(202501, <<"M">>)),
          RawRow([data_base |-> DataDoMes(202501), uf |-> <<"S", "P">>, porte |-> <<"M">>],
                 ValorA(<<"4", "0", "0", ",", "0", "0">>, <<"5", ",", "0", "0">>))>>))

(* The rows of a table with the default rate of some of them null. *)
ComNulos(rows, quais) ==
    [i \in 1..Len(rows) |->
        IF i \in quais
        THEN [rows[i] EXCEPT !.taxa_inadimplencia_final_segmento = NaN]
        ELSE rows[i]]

TabelasPequenas ==
    {NoFile, File(<<>>), File(GoldPequeno(202412)),
     File(GoldPequeno(202412) \o GoldPequeno(202501)),
     File(GoldPequeno(202412) \o GoldPequeno(202501) \o GoldPequeno(202501)),
     File(GoldPequeno(202412) \o GoldDistinto),
     File(GoldEmpate),
     File(ComNulos(GoldPequeno(202412) \o GoldPequeno(202501), 1..4)),
     File(ComNulos(GoldPequeno(202412) \o GoldPequeno(202501), {1})),
     File(ComNulos(GoldPequeno(202412) \o GoldPequeno(202501) \o GoldPequeno(202501), {1}))}

InitClusterizacao ==
    /\ bronze = [m \in Months |-> NoFile]
    /\ silver = [m \in Months |-> NoFile]
    /\ gold = [m \in Months |-> NoFile]
    /\ ft_scr_agregado_mensal \in TabelasPequenas
    /\ InitCarga
    /\ InitCluster
    /\ InitLote
    /\ InitApp

NextClusterizacao ==
    \E e \in Execucoes :
        \/ (\A o \in Execucoes : Parado(o)) /\ ClusterCarregar(e)
        \/ ClusterSalvarSegmentos(e)
        \/ ClusterSalvarPerfis(e)

SpecCluster == InitClusterizacao /\ [][NextClusterizacao]_vars

(***************************************************************************)
(* Clustering invocations that nothing serializes: a second invocation may *)
(* start while the first is between its load and its last write.           *)
(***************************************************************************)
NextConcorrente ==
    \E e \in Execucoes :
        \/ ClusterCarregar(e)
        \/ ClusterSalvarSegmentos(e)
        \/ ClusterSalvarPerfis(e)

SpecConcorrente == InitClusterizacao /\ [][NextConcorrente]_vars

(***************************************************************************)
(* Batches of the cleaner and of the aggregator over two months.  A raw    *)
(* file is missing, holds one row, or lacks columns; a gold file of an     *)
(* earlier batch may be there already.                                     *)
(***************************************************************************)
BronzePequenos(m) ==
    {NoFile, File(<<LinhaPequena(m, <<"M">>)>>), File(<<[data_base |-> DataDoMes(m)]>>)}

InitLotes ==
    /\ bronze \in {f \in [Months -> UNION {BronzePequenos(m) : m \in Months}] :
                     \A m \in Months : f[m] \in BronzePequenos(m)}
    /\ silver = [m \in Months |-> NoFile]
    /\ gold \in {f \in [Months -> {NoFile} \cup {File(GoldPequeno(m)) : m \in Months}] :
                   \A m \in Months : f[m] \in {NoFile, File(GoldPequeno(m))}}
    /\ ft_scr_agregado_mensal = NoFile
    /\ InitCarga
    /\ InitCluster
    /\ InitLote
    /\ InitApp

NextLotes ==
    \/ BronzeInicio
    \/ BronzePasso
    \/ GoldInicio
    \/ GoldPasso
    \/ GoldInterrompido

SpecLote == InitLotes /\ [][NextLotes]_vars

(* The batch scripts are processes that keep running: a batch that can     *)
(* take its next step takes it.                                            *)
SpecLoteJusto == SpecLote /\ WF_vars(BronzePasso) /\ WF_vars(GoldPasso)

(***************************************************************************)
(* The temporal page over a loaded frame: the first run of the script      *)
(* shows the whole period, every later run follows a date input.           *)
(***************************************************************************)
InitPagina ==
    /\ bronze = [m \in Months |-> NoFile]
    /\ silver = [m \in Months |-> NoFile]
    /\ gold = [m \in Months |-> NoFile]
    /\ ft_scr_agregado_mensal = NoFile
    /\ InitCarga
    /\ InitCluster
    /\ InitLote
    /\ df_temporal \in QuadrosPainel \ {<<>>}
    /\ selected_dates = <<PrimeiraLinha(df_temporal).mes, UltimaLinha(df_temporal).mes>>
    /\ avg_value =
          calculate_metrics_for_period(df_temporal, selected_dates[1], selected_dates[2])[1]
    /\ percent_change =
          calculate_metrics_for_period(df_temporal, selected_dates[1], selected_dates[2])[2]
    /\ InitViews
    /\ InitPreditor

SpecPainel == InitPagina /\ [][PaginaTemporal]_vars

(***************************************************************************)
(* Invocations of the view refresh script, one after the other.            *)
(***************************************************************************)
InitAtualizacao ==
    /\ bronze = [m \in Months |-> NoFile]
    /\ silver = [m \in Months |-> NoFile]
    /\ gold = [m \in Months |-> NoFile]
    /\ ft_scr_agregado_mensal = NoFile
    /\ InitCarga
    /\ InitCluster
    /\ InitLote
    /\ InitApp

NextAtualizacao ==
    \/ ViewsMain
    \/ ViewsRefresh
    \/ ViewsCommit

SpecViews == InitAtualizacao /\ [][NextAtualizacao]_vars

(***************************************************************************)
(* The predictor of a dashboard process: no model file at start, then      *)
(* trainings and predictions in any order.                                 *)
(***************************************************************************)
NextPreditor ==
    \/ train_model
    \/ predict_risk

SpecPreditor == InitAtualizacao /\ [][NextPreditor]_vars

(***************************************************************************)
(* Properties of the segment aggregation and of the KPI recalculation.     *)
(***************************************************************************)
(* A file that exists and was written to its end. *)
Completo(f) == f.exists /\ f.inteiro

Segmentos(m) == {gold[m].rows[i] : i \in 1..Len(gold[m].rows)}
TodosSegmentos == UNION {Segmentos(m) : m \in Months}

(* The ratio n / d of two sums, d > 0, clamped to [0, 1]. *)
Clamp01(n, d) == IF n < 0 THEN Zero ELSE IF n > d THEN One ELSE Frac(n, d)

Em01(r) == r[2] > 0 /\ 0 <= r[1] /\ r[1] <= r[2]

Numerador(s) == s.total_vencido_15d_segmento + s.total_inadimplida_arrastada_segmento

(* C1: both final KPIs of every segment row lie in [0, 1], whatever the    *)
(* aggregated sums are.                                                    *)
C1_KpiClampLaw ==
    \A s \in TodosSegmentos :
        /\ Em01(s.taxa_inadimplencia_final_segmento)
        /\ Em01(s.perc_ativo_problematico_final_segmento)

(* A segment whose default ratio is above 1 and whose problem-asset ratio  *)
(* is below 0 before the clamp has been written.                           *)
C1_Witness ==
    \E s \in TodosSegmentos :
        /\ s.total_carteira_ativa_segmento > 0
        /\ Numerador(s) > s.total_carteira_ativa_segmento
        /\ s.total_ativo_problematico_segmento < 0

(* C2: the final default rate is clamp((overdue15 + dragged) / balance,    *)
(* 0, 1) when the summed balance is positive, and 0 otherwise.             *)
C2_KpiCorrectness ==
    \A s \in TodosSegmentos :
        s.taxa_inadimplencia_final_segmento =
            IF s.total_carteira_ativa_segmento > 0
            THEN Clamp01(Numerador(s), s.total_carteira_ativa_segmento)
            ELSE Zero

(* A segment with a dragged default among its sums and a default rate      *)
(* strictly between 0 and 1.                                               *)
C2_Witness ==
    \E s \in TodosSegmentos :
        /\ s.total_inadimplida_arrastada_segmento > 0
        /\ s.total_vencido_15d_segmento > 0
        /\ Numerador(s) < s.total_carteira_ativa_segmento

(* C3: the final problem-asset rate is problem assets / balance clamped to *)
(* [0, 1] when the summed balance is positive; with a summed balance of 0  *)
(* both final KPIs are exactly 0, a well-formed number.                    *)
C3_ProblemAssetAndZeroGuard ==
    \A s \in TodosSegmentos :
        /\ s.total_carteira_ativa_segmento > 0 =>
               s.perc_ativo_problematico_final_segmento =
                   Clamp01(s.total_ativo_problematico_segmento,
                           s.total_carteira_ativa_segmento)
        /\ s.total_carteira_ativa_segmento = 0 =>
               /\ s.taxa_inadimplencia_final_segmento = Zero
               /\ s.perc_ativo_problematico_final_segmento = Zero

(* A segment with zero balance and a positive overdue amount, next to one  *)
(* with a positive balance and problem assets.                             *)
C3_Witness ==
    /\ \E s \in TodosSegmentos :
           s.total_carteira_ativa_segmento = 0 /\ s.total_vencido_15d_segmento > 0
    /\ \E s \in TodosSegmentos :
           /\ s.total_carteira_ativa_segmento > 0
           /\ s.total_ativo_problematico_segmento > 0
           /\ s.total_ativo_problematico_segmento # Numerador(s)

Somas(s) ==
    <<s.total_carteira_ativa_segmento, s.total_vencido_15d_segmento,
      s.total_inadimplida_arrastada_segmento, s.total_ativo_problematico_segmento>>

(* C4: two segments with the same four sums have the same final KPIs, even *)
(* when their averaged row-level rates differ.                             *)
C4_KpiFromSumsOnly ==
    \A s, t \in TodosSegmentos :
        Somas(s) = Somas(t) =>
            /\ s.taxa_inadimplencia_final_segmento = t.taxa_inadimplencia_final_segmento
            /\ s.perc_ativo_problematico_final_segmento =
                   t.perc_ativo_problematico_final_segmento

(* Two segments with equal sums and different averaged row-level rates.    *)
C4_Witness ==
    \E s, t \in TodosSegmentos :
        /\ Somas(s) = Somas(t)
        /\ s.media_taxa_inadimplencia_original # t.media_taxa_inadimplencia_original

(* The rows of a frame, reordered by a permutation of its positions.       *)
Permutacoes(n) == {p \in [1..n -> 1..n] : \A i, j \in 1..n : p[i] = p[j] => i = j}
Reordenar(rows, p) == [i \in 1..Len(rows) |-> rows[p[i]]]
ConjuntoDe(seq) == {seq[i] : i \in 1..Len(seq)}

ChaveLinha(r) == ChaveDe([r EXCEPT !.data_base = normalize(@)])
ChavesEntrada(m) == {ChaveLinha(silver[m].rows[i]) : i \in 1..Len(silver[m].rows)}

RECURSIVE SomaEsperada(_, _, _, _)
SomaEsperada(rows, k, col, n) ==
    IF n = 0 THEN 0
    ELSE SomaEsperada(rows, k, col, n - 1)
         + (IF ChaveLinha(rows[n]) = k /\ rows[n][col] # NaN THEN rows[n][col][1] ELSE 0)

(* C7: each of the four summed fields of a segment is the sum of that      *)
(* field over exactly the input rows with the segment's key, null as 0;    *)
(* balances 100, 200, 300 with overdue 5, 0, 30 give 600, 35 and 35/600.   *)
C7_SumsPerKey ==
    \A m \in Months :
        Completo(gold[m]) /\ Completo(silver[m]) =>
            /\ \A s \in Segmentos(m) :
                   LET E(col) == SomaEsperada(silver[m].rows, ChaveDe(s), col,
                                              Len(silver[m].rows))
                   IN  /\ s.total_carteira_ativa_segmento = E("carteira_ativa")
                       /\ s.total_vencido_15d_segmento = E("vencido_acima_de_15_dias")
                       /\ s.total_inadimplida_arrastada_segmento =
                              E("carteira_inadimplida_arrastada")
                       /\ s.total_ativo_problematico_segmento = E("ativo_problematico")
            /\ bronze[m].rows = CenarioA =>
                   /\ Len(gold[m].rows) = 1
                   /\ gold[m].rows[1].total_carteira_ativa_segmento = 60000
                   /\ gold[m].rows[1].total_vencido_15d_segmento = 3500
                   /\ gold[m].rows[1].taxa_inadimplencia_final_segmento = <<7, 120>>

(* The three rows of the example have been aggregated, and some other gold *)
(* file has a segment whose rows include a null amount.                    *)
C7_Witness ==
    \E m \in Months :
        /\ Completo(gold[m])
        /\ \/ bronze[m].rows = CenarioA
           \/ \E s \in Segmentos(m) :
                  /\ s.contagem_subsegmentos = 2
                  /\ \E i \in 1..Len(silver[m].rows) :
                         /\ ChaveLinha(silver[m].rows[i]) = ChaveDe(s)
                         /\ silver[m].rows[i].carteira_inadimplida_arrastada = NaN

RECURSIVE SomaContagem(_)
SomaContagem(segs) ==
    IF segs = <<>> THEN 0 ELSE Head(segs).contagem_subsegmentos + SomaContagem(Tail(segs))

C9_OneRowPerKeyInTable ==
    pcCarga = "idle" =>
        \A i, j \in 1..Len(ft_scr_agregado_mensal.rows) :
            ChaveDe(ft_scr_agregado_mensal.rows[i]) = ChaveDe(ft_scr_agregado_mensal.rows[j])
                => i = j

(* C10: when a clustering invocation has ended, in success or in failure,  *)
(* the two cluster tables are both as they were before it or both as this  *)
(* invocation wrote them.                                                  *)
EscritaPor(tab, e) == tab.run = e
IntocadaPor(tab, e) == tab.run # e

C10_BothOrNeither ==
    \A e \in Execucoes :
        pcCluster[e] \in {"ok", "falha"} =>
            \/ EscritaPor(ft_scr_segmentos_clusters, e) /\ EscritaPor(dim_cluster_profiles, e)
            \/ IntocadaPor(ft_scr_segmentos_clusters, e) /\ IntocadaPor(dim_cluster_profiles, e)

(***************************************************************************)
(* Properties of the clustering stage.                                     *)
(***************************************************************************)
(* The input of the stage is too small: no row, no row left after the      *)
(* removal of null features, or fewer rows than N_CLUSTERS.                *)
EntradaPequena(df) ==
    \/ df = <<>>
    \/ dropna(df) = <<>>
    \/ Len(df) < N_CLUSTERS
    \/ Len(dropna(df)) < N_CLUSTERS

(* C11: an invocation whose input is empty, empty after dropna, or smaller *)
(* than K ends in failure and has written neither cluster table.           *)
C11_SmallInputNoWrite ==
    EntradaPequena(ft_scr_agregado_mensal.rows) =>
        \A e \in Execucoes :
            pcCluster[e] # "pronto" =>
                /\ pcCluster[e] = "falha"
                /\ IntocadaPor(ft_scr_segmentos_clusters, e)
                /\ IntocadaPor(dim_cluster_profiles, e)
                /\ ft_scr_segmentos_clusters = SemTabela
                /\ dim_cluster_profiles = SemTabela

(* Every invocation has failed on a table of two segments, or on a table   *)
(* whose rows all have a null feature.                                     *)
C11_Witness ==
    /\ ft_scr_agregado_mensal.exists
    /\ ft_scr_agregado_mensal.rows # <<>>
    /\ \/ Len(ft_scr_agregado_mensal.rows) < N_CLUSTERS
       \/ dropna(ft_scr_agregado_mensal.rows) = <<>>
    /\ \A e \in Execucoes : pcCluster[e] = "falha"

(* The cluster ids of the rows of a table. *)
Ids(tab) == {tab.rows[i].cluster_id : i \in 1..Len(tab.rows)}

(* An invocation has ended successfully and both tables are its own. *)
Sucesso(e) ==
    /\ pcCluster[e] = "ok"
    /\ EscritaPor(ft_scr_segmentos_clusters, e)
    /\ EscritaPor(dim_cluster_profiles, e)

(* C12: after a successful run the profile table has exactly K rows with   *)
(* pairwise distinct cluster ids, and every cluster id of the assignment   *)
(* table has exactly one profile row.                                      *)
C12_ProfilesAreK ==
    \A e \in Execucoes :
        Sucesso(e) =>
            LET perfis == dim_cluster_profiles.rows
            IN  /\ Len(perfis) = N_CLUSTERS
                /\ \A i, j \in 1..Len(perfis) :
                       perfis[i].cluster_id = perfis[j].cluster_id => i = j
                /\ \A c \in Ids(ft_scr_segmentos_clusters) :
                       Cardinality({i \in 1..Len(perfis) : perfis[i].cluster_id = c}) = 1

(* A successful run over four segments with four different feature         *)
(* vectors: every one of the K ids is assigned.                            *)
C12_Witness ==
    \E e \in Execucoes :
        /\ Sucesso(e)
        /\ Cardinality(Ids(ft_scr_segmentos_clusters)) = N_CLUSTERS

(* C13: after a successful run the number of distinct cluster ids in the   *)
(* assignment table equals the number of rows of the profile table.        *)
C13_ProfileCoverage ==
    \A e \in Execucoes :
        Sucesso(e) =>
            Cardinality(Ids(ft_scr_segmentos_clusters)) = Len(dim_cluster_profiles.rows)

(***************************************************************************)
(* Properties of the monthly batches.                                      *)
(***************************************************************************)
(* Month m has been dealt with by the aggregator batch: a missing silver   *)
(* file was logged as a warning, one that cannot be read as an error, and  *)
(* for a good one the gold file holds its aggregation unless the error of  *)
(* that very month was logged.                                             *)
MesTratadoGold(m) ==
    IF ~silver[m].exists THEN <<"silver_to_gold", m, "warning">> \in log
    ELSE IF read_parquet_raises(silver[m]) THEN <<"silver_to_gold", m, "error">> \in log
    ELSE \/ gold[m] = File(Agregar(silver[m].rows))
         \/ <<"silver_to_gold", m, "error">> \in log

(* The same for a raw file of the cleaner batch. *)
MesTratadoBronze(m) ==
    IF read_csv_raises(bronze[m]) THEN <<"bronze_to_silver", m, "error">> \in log
    ELSE \/ silver[m] = File(Limpar(bronze[m].rows))
         \/ <<"bronze_to_silver", m, "error">> \in log

NaFila(m) == \E i \in 1..Len(csv_files) : csv_files[i] = m

C15_DatabaseFailureIsFatal ==
    /\ erroCarga => pcCarga = "idle" /\ statusCarga # 0
    /\ \A e \in Execucoes : erroCluster[e] => pcCluster[e] = "falha"

(* C16: after a run was interrupted during its write, every destination   *)
(* is a complete version, the previous one or the new one: no gold file    *)
(* and no table is left partially written.                                 *)
C16_NoPartialDestination ==
    pcLote = "interrompido" =>
        /\ \A m \in Months : gold[m].inteiro
        /\ ft_scr_agregado_mensal.inteiro

(* The invocation that started last. *)
Ultima(e) ==
    /\ pcCluster[e] # "pronto"
    /\ \A o \in Execucoes : o > e => pcCluster[o] = "pronto"

(* C17: when the clustering invocations did not overlap and the last one   *)
(* has completed, both tables come from that last invocation.  (With       *)
(* overlapping invocations a final state is reachable in which the         *)
(* assignment table is from one invocation and the profile table from the  *)
(* other: the witness.)                                                    *)
C17_SerializedRunsAgree ==
    ~sobrepostas =>
        \A e \in Execucoes :
            Ultima(e) /\ pcCluster[e] = "ok" =>
                /\ EscritaPor(ft_scr_segmentos_clusters, e)
                /\ EscritaPor(dim_cluster_profiles, e)

(* Two overlapping invocations have both completed, and the two tables     *)
(* were written by different invocations.                                  *)
C17_Witness ==
    /\ sobrepostas
    /\ \A e \in Execucoes : pcCluster[e] = "ok"
    /\ ft_scr_segmentos_clusters.run # dim_cluster_profiles.run
    /\ ft_scr_segmentos_clusters.run \in Execucoes
    /\ dim_cluster_profiles.run \in Execucoes

(* C18: a step of the aggregator batch, which is at month                  *)
(* current_date_loop, leaves the gold files of all other months as they    *)
(* are, and leaves its own month's gold file as it is when the silver file *)
(* is missing or cannot be read.                                           *)
C18_WritesOnlyOwnMonth ==
    [][pcLote = "gold" =>
          /\ \A m \in Months : m # current_date_loop => gold'[m] = gold[m]
          /\ current_date_loop <= LastMonth =>
                 (~silver[current_date_loop].exists
                      \/ read_parquet_raises(silver[current_date_loop])
                  => gold' = gold)]_vars

(* The batch has rewritten the gold file of the first month and stands at  *)
(* the second, whose gold file of an earlier batch is still there.         *)
C18_Witness ==
    /\ pcLote = "gold"
    /\ current_date_loop = LastMonth
    /\ Completo(silver[FirstMonth])
    /\ gold[FirstMonth] = File(Agregar(silver[FirstMonth].rows))
    /\ gold[FirstMonth] # File(GoldPequeno(FirstMonth))
    /\ gold[LastMonth] = File(GoldPequeno(LastMonth))

(***************************************************************************)
(* Properties of the row cleaner.                                          *)
(***************************************************************************)
LinhasSilver(m) == {silver[m].rows[i] : i \in 1..Len(silver[m].rows)}

(* C19: the row-level default rate of a cleaned row is (overdue-15 +       *)
(* dragged default) / active balance when the balance is positive and the  *)
(* three fields parsed, and 0 otherwise; a segment of one row with balance *)
(* 0 and a positive overdue amount has final default rate 0.               *)
C19_RowDefaultRate ==
    \A m \in Months :
        /\ \A r \in LinhasSilver(m) :
               LET ca == r.carteira_ativa
                   v15 == r.vencido_acima_de_15_dias
                   arr == r.carteira_inadimplida_arrastada
               IN  r.taxa_inadimplencia_segmento =
                       IF ca # NaN /\ v15 # NaN /\ arr # NaN /\ ca[1] > 0
                       THEN Frac(v15[1] + arr[1], ca[1])
                       ELSE Zero
        /\ Completo(gold[m]) =>
               \A s \in Segmentos(m) :
                   /\ s.contagem_subsegmentos = 1
                   /\ s.total_carteira_ativa_segmento = 0
                   /\ s.total_vencido_15d_segmento > 0
                   => /\ s.taxa_inadimplencia_final_segmento = Zero
                      /\ s.media_taxa_inadimplencia_original = Zero

(* The silver file holds a row with balance 0 and overdue amount 10.00,    *)
(* and the gold file its segment of that one row.                          *)
C19_Witness ==
    \E m \in Months :
        /\ Completo(silver[m])
        /\ Completo(gold[m])
        /\ \E r \in LinhasSilver(m) :
               /\ r.carteira_ativa = Num(0)
               /\ r.vencido_acima_de_15_dias = Num(1000)
               /\ r.taxa_inadimplencia_segmento = Zero
        /\ \E s \in Segmentos(m) :
               /\ s.contagem_subsegmentos = 1
               /\ s.total_carteira_ativa_segmento = 0
               /\ s.total_vencido_15d_segmento = 1000
               /\ s.taxa_inadimplencia_final_segmento = Zero

(* C20: every raw row has its cleaned row, whose numero_de_operacoes is 15 *)
(* for the raw text '<= 15', the integer for a text of digits, and 0 for   *)
(* any other text that is no number and for a missing field.               *)
C20_OperationCount ==
    \A m \in Months :
        Completo(silver[m]) =>
            /\ Len(silver[m].rows) = Len(bronze[m].rows)
            /\ \A i \in 1..Len(bronze[m].rows) :
                   LET raw == bronze[m].rows[i].numero_de_operacoes
                       n == silver[m].rows[i].numero_de_operacoes
                   IN  IF raw = <<"<", "=", " ", "1", "5">> THEN n = 15
                       ELSE IF raw # <<>> /\ AllDigits(raw) THEN n = DigitsVal(raw)
                       ELSE to_numeric(raw) = NaN => n = 0

(***************************************************************************)
(* C21: after cleaning, every exposure amount of every row of a silver     *)
(* file (the maturity bucket, overdue-15, active balance, dragged default, *)
(* problem assets) is null or not below zero, whatever the raw text was,   *)
(* a text with a leading minus sign included.                              *)
(***************************************************************************)
C21_AmountsNotNegative ==
    \A m \in Months :
        Completo(silver[m]) =>
            \A i \in 1..Len(silver[m].rows) :
                \A j \in 1..Len(colunas_scr_valor_para_limpar) :
                    LET v == silver[m].rows[i][colunas_scr_valor_para_limpar[j]]
                    IN  v = NaN \/ v[1] >= 0

(***************************************************************************)
(* C22: whenever an aggregation run writes a gold file in which clamping   *)
(* changed a segment's KPI (the ratio of the sums is above 1 or below 0),  *)
(* the run has logged a warning for that month when it finishes.           *)
(***************************************************************************)
Clampado(seg) ==
    \/ seg.taxa_inadimplencia_final_segmento #
           KpiFinal_SemClip(seg.total_vencido_15d_segmento
                                + seg.total_inadimplida_arrastada_segmento,
                            seg.total_carteira_ativa_segmento)
    \/ seg.perc_ativo_problematico_final_segmento #
           KpiFinal_SemClip(seg.total_ativo_problematico_segmento,
                            seg.total_carteira_ativa_segmento)

C22_ClampWarningLogged ==
    [][\A m \in Months :
          (/\ gold'[m] # gold[m]
           /\ Completo(gold'[m])
           /\ \E i \in 1..Len(gold'[m].rows) : Clampado(gold'[m].rows[i]))
          => <<"silver_to_gold", m, "warning">> \in log']_vars

(***************************************************************************)
(* C23: the result the page holds for a period that contains no rows       *)
(* differs from the result of calculate_metrics_for_period for every       *)
(* period whose rows all carry the metric value 0.                         *)
(***************************************************************************)
PeriodoVazio(df, a, b) == Filtrar(df, a, b) = <<>>

PeriodoDeZeros(df, a, b) ==
    LET f == Filtrar(df, a, b)
    IN  f # <<>> /\ \A i \in 1..Len(f) : f[i].valor = 0

C23_EmptyPeriodDistinguishable ==
    (df_temporal # <<>> /\ PeriodoVazio(df_temporal, selected_dates[1], selected_dates[2])) =>
        \A df \in QuadrosPainel : \A a, b \in DiasPainel :
            PeriodoDeZeros(df, a, b) =>
                calculate_metrics_for_period(df, a, b) # <<avg_value, percent_change>>

(***************************************************************************)
(* C24: on a gold table with at least N_CLUSTERS segments free of nulls    *)
(* and some segments with a null feature, a clustering invocation that no  *)
(* database failure stops goes on to its writes, and its frame then holds  *)
(* exactly the segments without a null, each with a cluster id in          *)
(* 0..N_CLUSTERS-1.                                                        *)
(***************************************************************************)
ComAlgunsNulos(df) == Len(dropna(df)) >= N_CLUSTERS /\ Len(dropna(df)) < Len(df)

C24_NullSegmentsDropped ==
    (ft_scr_agregado_mensal.exists /\ ComAlgunsNulos(ft_scr_agregado_mensal.rows)) =>
        \A e \in Execucoes :
            /\ pcCluster[e] = "falha" => erroCluster[e]
            /\ pcCluster[e] \in {"salvar_segmentos", "salvar_perfis", "ok"} =>
                  /\ Len(df_gold[e]) = Len(dropna(ft_scr_agregado_mensal.rows))
                  /\ \A i \in 1..Len(df_gold[e]) :
                        /\ df_gold[e][i].cluster_id \in 0..(N_CLUSTERS - 1)
                        /\ df_gold[e][i].taxa_inadimplencia_final_segmento # NaN

(***************************************************************************)
(* C25: in the profile table a finished invocation wrote, the value of     *)
(* every categorical field of every cluster with members is a most         *)
(* frequent value of the field among the cluster's segments, and among     *)
(* several most frequent values it is the one that occurs first in row     *)
(* order.                                                                  *)
(***************************************************************************)
Frequencia(rows, col, v) == Cardinality({i \in 1..Len(rows) : rows[i][col] = v})

MaisFrequentes(rows, col) ==
    {v \in {rows[i][col] : i \in 1..Len(rows)} :
        \A j \in 1..Len(rows) : Frequencia(rows, col, rows[j][col]) <= Frequencia(rows, col, v)}

PrimeiraOcorrencia(rows, col, v) ==
    CHOOSE i \in 1..Len(rows) :
        rows[i][col] = v /\ \A j \in 1..(i - 1) : rows[j][col] # v

PrimeiroMaisFrequente(rows, col) ==
    CHOOSE v \in MaisFrequentes(rows, col) :
        \A w \in MaisFrequentes(rows, col) :
            PrimeiraOcorrencia(rows, col, v) <= PrimeiraOcorrencia(rows, col, w)

C25_ModeFirstEncountered ==
    \A e \in Execucoes :
        (pcCluster[e] = "ok" /\ EscritaPor(dim_cluster_profiles, e)) =>
            \A k \in 1..Len(dim_cluster_profiles.rows) :
                LET perfil == dim_cluster_profiles.rows[k]
                    membros == SelectSeq(df_gold[e], LAMBDA r : r.cluster_id = perfil.cluster_id)
                IN  membros # <<>> =>
                        \A i \in 1..Len(features_for_profiling_categorical) :
                            LET col == features_for_profiling_categorical[i]
                            IN  /\ perfil.modas[i] \in MaisFrequentes(membros, col)
                                /\ perfil.modas[i] = PrimeiroMaisFrequente(membros, col)

(***************************************************************************)
(* C26: while a load in which no step has failed is appending, and when it *)
(* has loaded its last file, the table holds exactly the rows of the gold  *)
(* files found for the period and loaded so far, in chronological order,   *)
(* each file once, and nothing that was in the table before the load;      *)
(* months without a gold file are left out and the load goes on.           *)
(***************************************************************************)
RECURSIVE LinhasDosMeses(_)
LinhasDosMeses(ms) ==
    IF ms = <<>> THEN <<>> ELSE gold[Head(ms)].rows \o LinhasDosMeses(Tail(ms))

JaCarregados ==
    SelectSeq(SortMonths({m \in Months : gold[m].exists}),
              LAMBDA m : \A i \in 1..Len(files_to_load) : files_to_load[i] # m)

C26_LoadReplaceThenAppend ==
    (pcCarga = "restantes" /\ ~erroCarga) =>
        /\ JaCarregados # <<>>
        /\ ft_scr_agregado_mensal = File(LinhasDosMeses(JaCarregados))

C26_Witness ==
    /\ pcCarga = "restantes" /\ ~erroCarga /\ files_to_load = <<>>
    /\ cargas = 2
    /\ \E m \in Months : ~gold[m].exists
    /\ \E m \in Months : gold[m].exists /\ gold[m].rows # <<>>
    /\ ft_scr_agregado_mensal.rows # <<>>

(***************************************************************************)
(* C27: a batch of the aggregator starts at the first month of the period, *)
(* every pass of its loop handles the month it is at and moves to the      *)
(* next calendar month (January of the next year after December), it ends  *)
(* only once it is past the last month, and unless the process is stopped  *)
(* from outside it does end, whatever happened to each month.              *)
(***************************************************************************)
IndiceDoMes(m) == (m \div 100) * 12 + (m % 100) - 1
MesValido(m) == m % 100 \in 1..12
MesSeguinte(a, b) == MesValido(a) /\ MesValido(b) /\ IndiceDoMes(b) = IndiceDoMes(a) + 1

C28_UniqueClientCountIsOne ==
    \A m \in Months :
        Completo(gold[m]) =>
            \A i \in 1..Len(gold[m].rows) :
                gold[m].rows[i].contagem_clientes_unicos_segmento = 1

C28_Witness ==
    /\ Completo(gold[FirstMonth])
    /\ \E i, j \in 1..Len(gold[FirstMonth].rows) :
          /\ gold[FirstMonth].rows[i].cliente # gold[FirstMonth].rows[j].cliente
          /\ gold[FirstMonth].rows[i].contagem_clientes_unicos_segmento = 1
          /\ gold[FirstMonth].rows[j].contagem_clientes_unicos_segmento = 1

(***************************************************************************)
(* C29: called without a specific view, refresh_materialized_views         *)
(* executes the REFRESH of the five listed views in list order, each once, *)
(* going on after a refresh that raised, and returns True exactly when     *)
(* every refresh it executed succeeded; main calls commit whenever the     *)
(* function has returned, whatever it returned, and calls rollback only    *)
(* when an exception escapes.                                              *)
(***************************************************************************)
FuncaoRetornou == retorno \in {"True", "False"}

C29_RefreshAllThenCommit ==
    specific_view = "None" =>
        /\ Len(tentativas) <= Len(TodasAsViews)
        /\ \A i \in 1..Len(tentativas) : tentativas[i][1] = TodasAsViews[i]
        /\ FuncaoRetornou =>
              /\ Len(tentativas) = Len(TodasAsViews)
              /\ retorno = "True" <=> \A i \in 1..Len(tentativas) : tentativas[i][2]
        /\ (FuncaoRetornou /\ pcViews = "idle") => chamadas[1] = "commit"
        /\ (\E i \in 1..Len(chamadas) : chamadas[i] = "rollback") => escapou

C29_Witness ==
    /\ specific_view = "None" /\ pcViews = "idle" /\ retorno = "False"
    /\ Len(tentativas) = Len(TodasAsViews)
    /\ tentativas[1][2] /\ ~tentativas[2][2]
    /\ chamadas = <<"commit", "close">>

(***************************************************************************)
(* C30: a predict_risk call on a trained predictor leaves is_trained, the  *)
(* model and the class list of every label encoder as they were before     *)
(* the call, for every input (feature_columns is assigned by no step).     *)
(***************************************************************************)
C30_PredictLeavesStateUnchanged ==
    [][(is_trained /\ predicoes' # predicoes) =>
          /\ is_trained' = is_trained
          /\ model' = model
          /\ label_encoders' = label_encoders]_vars
====
